---- MODULE Spec2Model ----
(***************************************************************************)
(* The relay hub of iroh-relay: the upgrade handler's `accept`             *)
(* (src/iroh-relay/src/server/http_server.rs), the dispatcher (server      *)
(* actor) that owns the registry of connected clients, and the per-client  *)
(* read and write loops that move frames between mailboxes.                *)
(*                                                                         *)
(* `accept` is translated from http_server.rs.  The dispatcher, the        *)
(* registry and the client loops live in server/actor.rs and               *)
(* server/client_conn.rs, which are not among the source files at hand;    *)
(* they are modelled from sections 3, 4.C, 4.E, 4.F and 5 of spec.md.      *)
(***************************************************************************)
EXTENDS Integers, Sequences, FiniteSets, TLC

(***************************************************************************)
(* Bounds of the model.                                                    *)
(***************************************************************************)
\* Number of connections the listener upgrades in one behaviour.
MaxConns == 2
\* Number of SendPacket frames the clients emit in one behaviour.
MaxFrames == 3
\* Capacity of a slot's send mailbox.  The program's value is 32
\* (protos::relay::PER_CLIENT_SEND_QUEUE_DEPTH); the model scales it down
\* so that MaxFrames frames overflow it.
PER_CLIENT_SEND_QUEUE_DEPTH == 2
\* Capacity of the dispatcher's inbound channel (1024 in spec.md 4.F),
\* scaled down so that a sender can find it full.
SERVER_CHANNEL_SIZE == 1

\* Number of TCP connections the listener hands to the accept loop.
MaxTasks == 2
\* Number of listener.accept() errors in one behaviour.
MaxAcceptErrors == 1
\* Length from which on a challenge is refused (64 in the program,
\* `challenge.len() < 64`), scaled down; challenges of up to this length
\* are tried.
MaxChallenge == 3
\* Latest timestamp a signed packet carries.
MaxTimestamp == 2
\* Number of datagrams the STUN socket receives in one behaviour.
MaxDatagrams == 2
\* Number of errors recv_from returns in one behaviour.
MaxRecvErrors == 1
\* Length of the longest hostname tried.
MaxHostname == 4
\* Number of calls made on the stores at the same time.
MaxCalls == 3
\* The number of calls made on both stores one after the other.
MaxSequentialCalls == 4
\* The number of upgraded connections.
MaxUpgrades == 2
\* The longest read buffer an upgraded connection comes with.
MaxReadBuf == 2
\* The number of connections to a server with a TLS configuration.
MaxTlsConns == 2

\* The protocol version the server accepts (protos::relay::PROTOCOL_VERSION).
PROTOCOL_VERSION == 3

\* Public keys of the clients.
Keys == {"A", "B"}
\* Connection identifiers, in the order the listener upgrades them.
Conns == 1 .. MaxConns
\* Connection tasks, in the order the accept loop spawns them.
Tasks == 1 .. MaxTasks
\* Versions a ClientInfo frame may carry (spec.md S3: PROTOCOL_VERSION - 1).
Versions == {PROTOCOL_VERSION - 1, PROTOCOL_VERSION}

VARIABLES
    conn,        \* conn[c]: the connection's position and its ClientConnConfig
    cancelled,   \* cancelled[c]: the connection's cancel signal has fired
    server_channel, \* messages in flight to the dispatcher (mpsc, FIFO)
    clients,     \* the dispatcher's registry: a set of slots, one per key
    next_epoch,  \* the epoch the next inserted slot gets
    actor_pc,    \* the dispatcher's position
    actor_msg,   \* the CreateClient message the dispatcher is handling
    mailbox,     \* mailbox[c]: the slot's bounded send mailbox
    received,    \* received[c]: the frames the client has received, in order
    emitted,     \* number of SendPacket frames the clients have sent so far
    packets_dropped_full_mailbox, \* the dropped-frames counter
    \* The HTTP server's tasks (ServerBuilder::spawn):
    cancel_server_loop, \* the server-wide CancellationToken is cancelled
    http_server_task,   \* the supervisor task's position
    accept_errors,      \* listener.accept() errors logged so far
    set,         \* set[t]: the connection task t of the JoinSet
    handler,     \* handler[t]: the upgrade-handler task spawned for t
    server_task, \* the relay server actor (ServerActorTask)
    client,      \* client[t]: the client connection the actor serves for t
    io_result,   \* io_result[t]: outcome of the client's last send or recv
    client_info, \* client_info[t]: the ClientInfo frame that reached accept
    \* One HTTP request served by RelayService::call:
    handlers,    \* the (method, path) pairs with a custom handler
    headers,     \* the headers configured on the ServerBuilder
    req,         \* the request
    resp,        \* the response returned for it
    upgrade_tasks, \* upgrade-handler tasks spawned while serving it
    \* The relay binary (derper.rs main):
    tls_config,  \* "unset" before main ran, then "some" or "none"
    captive_portal_task, \* the captive-portal listener is running
    listener,    \* the listener the request arrived at
    \* The signed-packet stores of the DNS server:
    signed_packet_store, \* SignedPacketStore.store (DashMap)
    moka_store,  \* MokaStore.store (moka cache, entries live 300 s)
    last_upsert, \* the last upsert: its store, its packet, what it returned
    \* The STUN listener:
    stun_listener,    \* the receive loop's position
    stun_received,    \* number of datagrams received so far
    stun_recv_errors, \* number of recv_from errors so far
    stun_buffer,      \* the loop's receive buffer
    stun_datagram,    \* stun_datagram[i]: the i-th datagram as it arrived
    stun_task,        \* stun_task[i]: the task spawned for the i-th datagram
    stun_sent,        \* the responses the socket has sent, in order
    \* escape_hostname:
    hostname,    \* the configured hostname
    keyname,     \* the escaped hostname
    escapes,     \* how many times escape_hostname has been applied
    \* Calls on the signed-packet stores that run at the same time:
    store_call,    \* store_call[i]: the i-th call, its position and result
    store_metrics, \* store_metrics[s]: store s's increments of the counters
    \* get calls on the signed-packet stores:
    newest_got, \* newest_got[s][k]: the most recent packet a get returned
    last_get,\* the last get: its store, its key, what it returned
    \* The same calls made on both stores, one after the other:
    sequential_calls, \* the number of calls made on each store
    last_result, \* last_result[s]: what the last call returned on store s
    moka_expired,\* an entry of the moka cache has expired
    \* The start of the relay binary (derper.rs main, up to ctrl_c):
    startup_pc, \* main's position
    main_cfg, \* the configuration main loaded
    main_addr, \* the port of the main listening address
    main_tls_config, \* main's tls_config: {} in dev mode or without TLS
    captive_portal_port, \* main's port for the captive-portal listener
    serve_stun_task, \* the task that runs serve_stun
    bound,\* the listeners bound so far, with their ports
    \* Upgraded connections in relay_connection_handler and accept:
    upgraded, \* upgraded[i]: the i-th upgraded connection, as hyper hands it over
    handshake_pc, \* handshake_pc[i]: the position of its handler
    handshake_error, \* handshake_error[i]: why its handler failed
    accept_metrics, \* the counters derp_accepts and websocket_accepts
    create_client_sent, \* create_client_sent[i]: CreateClient was sent for it
    client_slot,\* client_slot[i]: the actor registered its client
    \* Connections served by tls_serve_connection:
    tls_acceptor, \* tls_acceptor[i]: the acceptor of the i-th connection's TlsConfig
    tls_pc, \* tls_pc[i]: the position of its task
    tls_accepted, \* tls_accepted[i]: what the acceptor made of it
    tls_handshake, \* tls_handshake[i]: how its TLS handshake ended
    tls_result, \* tls_result[i]: what tls_serve_connection returned
    served_http, \* served_http[i]: serve_connection processed a request of it
    relay_route \* relay_route[i]: a request of it reached the relay route

\* The relay hub's variables.
relay_vars ==
    <<conn, cancelled, server_channel, clients, next_epoch, actor_pc,
      actor_msg, mailbox, received, emitted, packets_dropped_full_mailbox>>

\* The variables of the HTTP server's tasks.
server_vars ==
    <<cancel_server_loop, http_server_task, accept_errors, set, handler,
      server_task, client, io_result, client_info>>

\* The variables of one HTTP request.
http_vars ==
    <<handlers, headers, req, resp, upgrade_tasks, tls_config,
      captive_portal_task, listener>>

\* The variables of the signed-packet stores.
store_vars == <<signed_packet_store, moka_store, last_upsert>>

\* The variables of the STUN listener.
stun_vars ==
    <<stun_listener, stun_received, stun_recv_errors, stun_buffer,
      stun_datagram, stun_task, stun_sent>>

\* The variables of escape_hostname.
hostname_vars == <<hostname, keyname, escapes>>

\* The variables of the stores' concurrent calls and their metrics.
calls_vars == <<store_call, store_metrics>>

\* The variables of the stores' get calls.
get_vars ==
    <<newest_got, last_get>>

\* The variables of the two stores driven by the same calls.
lockstep_vars ==
    <<sequential_calls, last_result, moka_expired>>

\* The variables of the relay binary's start.
startup_vars ==
    <<startup_pc, main_cfg, main_addr, main_tls_config,
      captive_portal_port, serve_stun_task, bound>>

\* The variables of the upgrade handlers' handshakes.
handshake_vars ==
    <<upgraded, handshake_pc, handshake_error, accept_metrics, create_client_sent, client_slot>>

\* The variables of the TLS connections' tasks.
tls_vars ==
    <<tls_acceptor, tls_pc, tls_accepted, tls_handshake, tls_result, served_http, relay_route>>

vars ==
    <<relay_vars, server_vars, http_vars, store_vars, stun_vars,
      hostname_vars, calls_vars, get_vars, lockstep_vars, startup_vars,
      handshake_vars, tls_vars>>

\* What the relay hub's steps leave alone.
relay_frame ==
    <<server_vars, http_vars, store_vars, stun_vars, hostname_vars,
      calls_vars, get_vars, lockstep_vars, startup_vars, handshake_vars,
      tls_vars>>

(***************************************************************************)
(* Data.                                                                   *)
(***************************************************************************)
NoKey == "-"

\* A connection the listener has not upgraded yet.
FreeConn ==
    [st |-> "free", client_key |-> NoKey, node_id |-> NoKey,
     channel_capacity |-> 0, epoch |-> 0]

\* Connection c once its loops have exited and its stream and mailbox are
\* released.
Closed(c) == [conn[c] EXCEPT !.st = "closed", !.channel_capacity = 0]

NoMsg == [type |-> "None", conn |-> 0, node_id |-> NoKey, epoch |-> 0]

CreateClient(c) ==
    [type |-> "CreateClient", conn |-> c, node_id |-> conn[c].node_id, epoch |-> 0]

RemoveClient(k, e) ==
    [type |-> "RemoveClient", conn |-> 0, node_id |-> k, epoch |-> e]

\* RecvPacket{src, payload}; dst records the destination the sender named
\* in its SendPacket (it is not on the wire), seq is the payload.
RecvPacket(src, dst, seq) ==
    [type |-> "RecvPacket", src |-> src, dst |-> dst, seq |-> seq]

PeerGone(k) ==
    [type |-> "PeerGone", src |-> k, dst |-> k, seq |-> 0]

\* The answer to Ping(nonce); the nonce is the frame's number.
Pong(nonce) ==
    [type |-> "Pong", src |-> NoKey, dst |-> NoKey, seq |-> nonce]

(***************************************************************************)
(* accept: the handshake (http_server.rs 512-557).                         *)
(***************************************************************************)
\* Mutant: the version the client announced is not compared.
HandshakeOkAnyVersion(sig_ok, version) ==
    sig_ok

\* recv_client_key succeeds when the signature verifies; accept then
\* compares the client's version with PROTOCOL_VERSION.
HandshakeOk(sig_ok, version) ==
    sig_ok /\ version = PROTOCOL_VERSION

\* Mutant: the slot is registered under a key other than the verified one.
ClientConnConfigOtherKey(client_key) ==
    [node_id |-> IF client_key = "A" THEN "B" ELSE "A",
     channel_capacity |-> PER_CLIENT_SEND_QUEUE_DEPTH]

\* Mutant: the mailbox is created one frame deeper than the queue depth.
ClientConnConfigDeeperQueue(client_key) ==
    [node_id |-> client_key,
     channel_capacity |-> PER_CLIENT_SEND_QUEUE_DEPTH + 1]

\* The ClientConnConfig accept builds for a verified client key.
ClientConnConfig(client_key) ==
    [node_id |-> client_key, channel_capacity |-> PER_CLIENT_SEND_QUEUE_DEPTH]

\* accept: the handshake, then the send of CreateClient on the server
\* channel.  The send waits while the channel is full ("sending").
AcceptHandshake(c, k, sig_ok, version) ==
    /\ conn[c].st = "free"
    /\ \A d \in Conns : d < c => conn[d].st # "free"
    /\ IF ~HandshakeOk(sig_ok, version)
       THEN /\ conn' = [conn EXCEPT ![c] =
                    [FreeConn EXCEPT !.st = "rejected"]]
            /\ UNCHANGED server_channel
       ELSE LET cfg == ClientConnConfig(k)
                new == [st |-> "sending", client_key |-> k,
                        node_id |-> cfg.node_id,
                        channel_capacity |-> cfg.channel_capacity,
                        epoch |-> 0]
            IN  IF Len(server_channel) < SERVER_CHANNEL_SIZE
                THEN /\ conn' = [conn EXCEPT ![c] =
                                [new EXCEPT !.st = "accepted"]]
                     /\ server_channel' = Append(server_channel,
                            [type |-> "CreateClient", conn |-> c,
                             node_id |-> cfg.node_id, epoch |-> 0])
                ELSE /\ conn' = [conn EXCEPT ![c] = new]
                     /\ UNCHANGED server_channel
    /\ UNCHANGED <<cancelled, clients, next_epoch, actor_pc, actor_msg,
                   mailbox, received, emitted, packets_dropped_full_mailbox>>
    /\ UNCHANGED relay_frame

\* The send of CreateClient is still waiting for room five seconds after
\* it began (the time spec.md 4.F gives a sender).  mpsc::Sender::send has
\* no deadline: the task goes on waiting.
SendOverdue(c) ==
    /\ conn[c].st = "sending"
    /\ conn' = [conn EXCEPT ![c].st = "overdue"]
    /\ UNCHANGED <<cancelled, server_channel, clients, next_epoch, actor_pc,
                   actor_msg, mailbox, received, emitted,
                   packets_dropped_full_mailbox>>
    /\ UNCHANGED relay_frame

\* server_channel.send(Message::CreateClient(..)).await once there is room.
AcceptSend(c) ==
    /\ conn[c].st \in {"sending", "overdue"}
    /\ Len(server_channel) < SERVER_CHANNEL_SIZE
    /\ server_channel' = Append(server_channel, CreateClient(c))
    /\ conn' = [conn EXCEPT ![c].st = "accepted"]
    /\ UNCHANGED <<cancelled, clients, next_epoch, actor_pc, actor_msg,
                   mailbox, received, emitted, packets_dropped_full_mailbox>>
    /\ UNCHANGED relay_frame

(***************************************************************************)
(* The dispatcher (spec.md 4.F).                                           *)
(***************************************************************************)
SlotsFor(k) == {s \in clients : s.node_id = k}

\* Mutant: the frame is put at the front of the mailbox.
TrySendFront(mb, capacity, frame) ==
    IF Len(mb) < capacity THEN <<frame>> \o mb ELSE mb

\* Non-blocking enqueue into a bounded mailbox: the frame is lost when the
\* mailbox is full.
TrySend(mb, capacity, frame) ==
    IF Len(mb) < capacity THEN Append(mb, frame) ELSE mb

\* Mutant: the new slot is added beside the one registered for the key.
InsertKeepsOld(registry, slot) ==
    registry \cup {slot}

\* Map insert: the slot registered for the key is replaced.
Insert(registry, slot) ==
    {s \in registry : s.node_id # slot.node_id} \cup {slot}

\* Mutant: the slot of the key is removed whatever its epoch.
RemoveAnyEpoch(registry, node_id, epoch) ==
    {s \in registry : s.node_id # node_id}

\* Remove only if the current slot's epoch equals `epoch`.
Remove(registry, node_id, epoch) ==
    {s \in registry : ~(s.node_id = node_id /\ s.epoch = epoch)}

\* The mailboxes after PeerGone(k) was enqueued, best-effort, to the slot
\* registered for k (nothing is enqueued to a released mailbox).
NotifyPeerGone(k) ==
    [c \in Conns |->
        IF (\E s \in SlotsFor(k) : s.conn = c) /\ conn[c].st = "serving"
        THEN TrySend(mailbox[c], conn[c].channel_capacity, PeerGone(k))
        ELSE mailbox[c]]

\* The registry and the connections after the slot of message `msg` was
\* inserted with the next epoch; the connection's loops start.
Registered(msg) ==
    Insert(clients, [node_id |-> msg.node_id, conn |-> msg.conn,
                     epoch |-> next_epoch])

Started(msg) ==
    [conn EXCEPT ![msg.conn].st = "serving", ![msg.conn].epoch = next_epoch]

\* CreateClient(slot): if no slot exists for the key, insert.  If one
\* exists, enqueue PeerGone to the old slot's mailbox (best-effort) ...
ActorCreateClient ==
    /\ actor_pc = "recv"
    /\ server_channel # <<>>
    /\ Head(server_channel).type = "CreateClient"
    /\ server_channel' = Tail(server_channel)
    /\ LET msg == Head(server_channel)
       IN  IF SlotsFor(msg.node_id) = {}
           THEN /\ clients' = Registered(msg)
                /\ conn' = Started(msg)
                /\ next_epoch' = next_epoch + 1
                /\ UNCHANGED <<actor_pc, actor_msg, mailbox>>
           ELSE /\ mailbox' = NotifyPeerGone(msg.node_id)
                /\ actor_msg' = msg
                /\ actor_pc' = "cancel"
                /\ UNCHANGED <<clients, conn, next_epoch>>
    /\ UNCHANGED <<cancelled, received, emitted, packets_dropped_full_mailbox>>
    /\ UNCHANGED relay_frame

\* Mutant: the old slot's connection is not cancelled.
ActorCancelSkipped ==
    /\ actor_pc = "cancel"
    /\ actor_pc' = "insert"
    /\ UNCHANGED <<conn, cancelled, server_channel, clients, next_epoch,
                   actor_msg, mailbox, received, emitted,
                   packets_dropped_full_mailbox>>
    /\ UNCHANGED relay_frame

\* ... cancel it ...
ActorCancel ==
    /\ actor_pc = "cancel"
    /\ cancelled' = [c \in Conns |->
            cancelled[c] \/ \E s \in SlotsFor(actor_msg.node_id) : s.conn = c]
    /\ actor_pc' = "insert"
    /\ UNCHANGED <<conn, server_channel, clients, next_epoch, actor_msg,
                   mailbox, received, emitted, packets_dropped_full_mailbox>>
    /\ UNCHANGED relay_frame

\* ... then insert the new slot with a monotonically increasing epoch.
ActorInsert ==
    /\ actor_pc = "insert"
    /\ clients' = Registered(actor_msg)
    /\ conn' = Started(actor_msg)
    /\ next_epoch' = next_epoch + 1
    /\ actor_msg' = NoMsg
    /\ actor_pc' = "recv"
    /\ UNCHANGED <<cancelled, server_channel, mailbox, received, emitted,
                   packets_dropped_full_mailbox>>
    /\ UNCHANGED relay_frame

\* RemoveClient(node_id, epoch).
ActorRemoveClient ==
    /\ actor_pc = "recv"
    /\ server_channel # <<>>
    /\ Head(server_channel).type = "RemoveClient"
    /\ clients' = Remove(clients, Head(server_channel).node_id,
                         Head(server_channel).epoch)
    /\ server_channel' = Tail(server_channel)
    /\ UNCHANGED <<conn, cancelled, next_epoch, actor_pc, actor_msg, mailbox,
                   received, emitted, packets_dropped_full_mailbox>>
    /\ UNCHANGED relay_frame

(***************************************************************************)
(* The client connection (spec.md 4.E).                                    *)
(***************************************************************************)
Running(c) == conn[c].st = "serving" /\ ~cancelled[c]

\* Mutant: the frame goes to every connection of the key, not only to the
\* one holding the key's slot.
RouteToEveryConn(dst, frame) ==
    [c \in Conns |->
        IF conn[c].node_id = dst /\ conn[c].st = "serving"
        THEN TrySend(mailbox[c], conn[c].channel_capacity, frame)
        ELSE mailbox[c]]

\* The mailboxes after the read loop of a connection routed `frame` to
\* `dst`: looked up in the registry, enqueued without blocking.
Route(dst, frame) ==
    [c \in Conns |->
        IF (\E s \in SlotsFor(dst) : s.conn = c) /\ conn[c].st = "serving"
        THEN TrySend(mailbox[c], conn[c].channel_capacity, frame)
        ELSE mailbox[c]]

\* Whether routing to `dst` finds a slot whose mailbox is full.
FullMailbox(dst) ==
    \E s \in SlotsFor(dst) :
        /\ conn[s.conn].st = "serving"
        /\ Len(mailbox[s.conn]) >= conn[s.conn].channel_capacity

\* Mutant: the read loop waits for room in the destination's mailbox.
ReadSendPacketBlocking(c, dst) ==
    /\ Running(c)
    /\ emitted < MaxFrames
    /\ ~FullMailbox(dst)
    /\ emitted' = emitted + 1
    /\ mailbox' = Route(dst, RecvPacket(conn[c].node_id, dst, emitted + 1))
    /\ UNCHANGED <<conn, cancelled, server_channel, clients, next_epoch,
                   actor_pc, actor_msg, received,
                   packets_dropped_full_mailbox>>
    /\ UNCHANGED relay_frame

\* Read loop: SendPacket{dst, payload} from the client of connection c.
ReadSendPacket(c, dst) ==
    /\ Running(c)
    /\ emitted < MaxFrames
    /\ emitted' = emitted + 1
    /\ mailbox' = Route(dst, RecvPacket(conn[c].node_id, dst, emitted + 1))
    /\ packets_dropped_full_mailbox' =
            IF FullMailbox(dst) THEN packets_dropped_full_mailbox + 1
            ELSE packets_dropped_full_mailbox
    /\ UNCHANGED <<conn, cancelled, server_channel, clients, next_epoch,
                   actor_pc, actor_msg, received>>
    /\ UNCHANGED relay_frame

\* Mutant: the pong is enqueued for every connection of the client's key.
ReadPingEveryConn(c) ==
    /\ Running(c)
    /\ emitted < MaxFrames
    /\ emitted' = emitted + 1
    /\ mailbox' = RouteToEveryConn(conn[c].node_id, Pong(emitted + 1))
    /\ UNCHANGED <<conn, cancelled, server_channel, clients, next_epoch,
                   actor_pc, actor_msg, received,
                   packets_dropped_full_mailbox>>
    /\ UNCHANGED relay_frame

\* Read loop: Ping(nonce) from the client of connection c; Pong(nonce) is
\* enqueued to the connection's own mailbox.
ReadPing(c) ==
    /\ Running(c)
    /\ emitted < MaxFrames
    /\ emitted' = emitted + 1
    /\ mailbox' = [mailbox EXCEPT ![c] =
                      TrySend(@, conn[c].channel_capacity, Pong(emitted + 1))]
    /\ UNCHANGED <<conn, cancelled, server_channel, clients, next_epoch,
                   actor_pc, actor_msg, received,
                   packets_dropped_full_mailbox>>
    /\ UNCHANGED relay_frame

\* Mutant: the write loop takes the frame and does not write it.
WriteFrameLoses(c) ==
    /\ Running(c)
    /\ mailbox[c] # <<>>
    /\ mailbox' = [mailbox EXCEPT ![c] = Tail(@)]
    /\ UNCHANGED <<conn, cancelled, server_channel, clients, next_epoch,
                   actor_pc, actor_msg, received, emitted,
                   packets_dropped_full_mailbox>>
    /\ UNCHANGED relay_frame

\* Write loop: one frame leaves the mailbox for the client.
WriteFrame(c) ==
    /\ Running(c)
    /\ mailbox[c] # <<>>
    /\ received' = [received EXCEPT ![c] = Append(@, Head(mailbox[c]))]
    /\ mailbox' = [mailbox EXCEPT ![c] = Tail(@)]
    /\ UNCHANGED <<conn, cancelled, server_channel, clients, next_epoch,
                   actor_pc, actor_msg, emitted, packets_dropped_full_mailbox>>
    /\ UNCHANGED relay_frame

\* Mutant: the connection terminates without sending Deregister.
ConnFailSilent(c) ==
    /\ Running(c)
    /\ cancelled' = [cancelled EXCEPT ![c] = TRUE]
    /\ conn' = [conn EXCEPT ![c] = Closed(c)]
    /\ mailbox' = [mailbox EXCEPT ![c] = <<>>]
    /\ received' = [received EXCEPT ![c] = <<>>]
    /\ UNCHANGED <<server_channel, clients, next_epoch, actor_pc, actor_msg,
                   emitted, packets_dropped_full_mailbox>>
    /\ UNCHANGED relay_frame

\* A loop exits on a transport error, EOF or a write timeout: it cancels the
\* other loop and sends Deregister{node_id, slot_epoch} to the dispatcher,
\* waiting while the channel is full; the stream and the mailbox are
\* released.
ConnFail(c) ==
    /\ Running(c)
    /\ cancelled' = [cancelled EXCEPT ![c] = TRUE]
    /\ IF Len(server_channel) < SERVER_CHANNEL_SIZE
       THEN /\ server_channel' = Append(server_channel,
                    RemoveClient(conn[c].node_id, conn[c].epoch))
            /\ conn' = [conn EXCEPT ![c] = Closed(c)]
            /\ mailbox' = [mailbox EXCEPT ![c] = <<>>]
            /\ received' = [received EXCEPT ![c] = <<>>]
       ELSE UNCHANGED <<server_channel, conn, mailbox, received>>
    /\ UNCHANGED <<clients, next_epoch, actor_pc, actor_msg,
                   emitted, packets_dropped_full_mailbox>>
    /\ UNCHANGED relay_frame

\* Termination of a cancelled connection (cancelled by the dispatcher, or
\* waiting for room on the channel).
ConnDeregister(c) ==
    /\ conn[c].st = "serving"
    /\ cancelled[c]
    /\ Len(server_channel) < SERVER_CHANNEL_SIZE
    /\ server_channel' = Append(server_channel,
                                RemoveClient(conn[c].node_id, conn[c].epoch))
    /\ conn' = [conn EXCEPT ![c] = Closed(c)]
    /\ mailbox' = [mailbox EXCEPT ![c] = <<>>]
    /\ received' = [received EXCEPT ![c] = <<>>]
    /\ UNCHANGED <<cancelled, clients, next_epoch, actor_pc, actor_msg,
                   emitted, packets_dropped_full_mailbox>>
    /\ UNCHANGED relay_frame

(***************************************************************************)
(* The HTTP server's tasks (http_server.rs 225-312, 394-413, 592-614).     *)
(***************************************************************************)
server_frame ==
    <<relay_vars, http_vars, store_vars, stun_vars, hostname_vars,
      calls_vars, get_vars, lockstep_vars, startup_vars, handshake_vars,
      tls_vars>>

\* The JoinSet once it is shut down or dropped: every task still running
\* is aborted.
AbortAll(js) ==
    [t \in Tasks |-> IF js[t] = "running" THEN "aborted" ELSE js[t]]

\* The client connections once the relay server actor has closed.
ShutdownAll(cl) ==
    [t \in Tasks |-> IF cl[t] = "registered" THEN "shutdown" ELSE cl[t]]

\* Server::shutdown, ServerHandle::shutdown: cancel the server-wide token.
Shutdown ==
    /\ ~cancel_server_loop
    /\ cancel_server_loop' = TRUE
    /\ UNCHANGED <<http_server_task, accept_errors, set, handler,
                   server_task, client, io_result>>
    /\ UNCHANGED <<client_info, server_frame>>

\* The supervisor task is aborted (AbortOnDropHandle: abort, or the Server
\* is dropped): its future is dropped, and with it the JoinSet and the
\* ServerActorTask.  What dropping a ServerActorTask does to the actor is
\* not in http_server.rs: the actor is aborted or keeps running.
Abort ==
    /\ http_server_task \in {"select", "close", "shutdown"}
    /\ http_server_task' = "aborted"
    /\ set' = AbortAll(set)
    /\ \E a \in {server_task, "aborted"} : server_task' = a
    /\ UNCHANGED <<cancel_server_loop, accept_errors, handler, client,
                   io_result>>
    /\ UNCHANGED <<client_info, server_frame>>

\* Mutant: the loop is left without closing the relay server actor.
BreakSkipsClose ==
    /\ http_server_task = "select"
    /\ cancel_server_loop
    /\ http_server_task' = "shutdown"
    /\ UNCHANGED <<cancel_server_loop, accept_errors, set, handler,
                   server_task, client, io_result>>
    /\ UNCHANGED <<client_info, server_frame>>

\* select!, biased: `cancel.cancelled()` is polled first.
Break ==
    /\ http_server_task = "select"
    /\ cancel_server_loop
    /\ http_server_task' = "close"
    /\ UNCHANGED <<cancel_server_loop, accept_errors, set, handler,
                   server_task, client, io_result>>
    /\ UNCHANGED <<client_info, server_frame>>

\* Mutant: a task that returned is treated like one that panicked.
JoinNextStrict(t) ==
    /\ http_server_task = "select"
    /\ ~cancel_server_loop
    /\ set[t] \in {"finished", "panicked"}
    /\ http_server_task' = "panicked"
    /\ set' = AbortAll([set EXCEPT ![t] = "joined"])
    /\ \E a \in {server_task, "aborted"} : server_task' = a
    /\ UNCHANGED <<cancel_server_loop, accept_errors, handler, client,
                   io_result>>
    /\ UNCHANGED <<client_info, server_frame>>

\* `Some(res) = set.join_next()`: a finished connection task is reaped; if
\* it panicked the supervisor panics too, which drops the JoinSet and the
\* ServerActorTask.
JoinNext(t) ==
    /\ http_server_task = "select"
    /\ ~cancel_server_loop
    /\ set[t] \in {"finished", "panicked"}
    /\ IF set[t] = "panicked"
       THEN /\ http_server_task' = "panicked"
            /\ set' = AbortAll([set EXCEPT ![t] = "joined"])
            /\ \E a \in {server_task, "aborted"} : server_task' = a
       ELSE /\ set' = [set EXCEPT ![t] = "joined"]
            /\ UNCHANGED <<http_server_task, server_task>>
    /\ UNCHANGED <<cancel_server_loop, accept_errors, handler, client,
                   io_result>>
    /\ UNCHANGED <<client_info, server_frame>>

\* `res = listener.accept()`, Ok: a connection task is spawned in the set.
ListenerAccept(t) ==
    /\ http_server_task = "select"
    /\ ~cancel_server_loop
    /\ set[t] = "unspawned"
    /\ \A u \in Tasks : u < t => set[u] # "unspawned"
    /\ set' = [set EXCEPT ![t] = "running"]
    /\ UNCHANGED <<cancel_server_loop, http_server_task, accept_errors,
                   handler, server_task, client, io_result>>
    /\ UNCHANGED <<client_info, server_frame>>

\* `res = listener.accept()`, Err: the error is logged.
ListenerAcceptError ==
    /\ http_server_task = "select"
    /\ ~cancel_server_loop
    /\ accept_errors < MaxAcceptErrors
    /\ accept_errors' = accept_errors + 1
    /\ UNCHANGED <<cancel_server_loop, http_server_task, set, handler,
                   server_task, client, io_result>>
    /\ UNCHANGED <<client_info, server_frame>>

\* Mutant: closing the actor leaves its client connections running.
ServerTaskCloseKeepsClients ==
    /\ http_server_task = "close"
    /\ server_task' = "closed"
    /\ http_server_task' = "shutdown"
    /\ UNCHANGED <<cancel_server_loop, accept_errors, set, handler, client,
                   io_result>>
    /\ UNCHANGED <<client_info, server_frame>>

\* server_task.close().await: the relay server actor stops and shuts down
\* every client connection it serves.
ServerTaskClose ==
    /\ http_server_task = "close"
    /\ server_task' = "closed"
    /\ client' = ShutdownAll(client)
    /\ http_server_task' = "shutdown"
    /\ UNCHANGED <<cancel_server_loop, accept_errors, set, handler,
                   io_result>>
    /\ UNCHANGED <<client_info, server_frame>>

\* Mutant: the supervisor returns without shutting the JoinSet down.
SetShutdownSkipped ==
    /\ http_server_task = "shutdown"
    /\ http_server_task' = "completed"
    /\ UNCHANGED <<cancel_server_loop, accept_errors, set, handler,
                   server_task, client, io_result>>
    /\ UNCHANGED <<client_info, server_frame>>

\* set.shutdown().await: every connection task is aborted and awaited.
SetShutdown ==
    /\ http_server_task = "shutdown"
    /\ set' = AbortAll(set)
    /\ http_server_task' = "completed"
    /\ UNCHANGED <<cancel_server_loop, accept_errors, handler, server_task,
                   client, io_result>>
    /\ UNCHANGED <<client_info, server_frame>>

\* handle_connection returns: the connection ended, or failed with a TLS,
\* HTTP or I/O error, which is logged.
ConnError(t) ==
    /\ set[t] = "running"
    /\ set' = [set EXCEPT ![t] = "finished"]
    /\ UNCHANGED <<cancel_server_loop, http_server_task, accept_errors,
                   handler, server_task, client, io_result>>
    /\ UNCHANGED <<client_info, server_frame>>

\* The connection task panics.
ConnPanic(t) ==
    /\ set[t] = "running"
    /\ set' = [set EXCEPT ![t] = "panicked"]
    /\ UNCHANGED <<cancel_server_loop, http_server_task, accept_errors,
                   handler, server_task, client, io_result>>
    /\ UNCHANGED <<client_info, server_frame>>

\* call_client_conn: tokio::task::spawn of the upgrade handler, which
\* awaits hyper::upgrade::on; its JoinHandle is dropped.
SpawnUpgradeHandler(t) ==
    /\ set[t] = "running"
    /\ handler[t] = "unspawned"
    /\ handler' = [handler EXCEPT ![t] = "upgrade"]
    /\ UNCHANGED <<cancel_server_loop, http_server_task, accept_errors, set,
                   server_task, client, io_result>>
    /\ UNCHANGED <<client_info, server_frame>>

\* The 101 response is written: serve_connection(..).with_upgrades()
\* completes and the handler gets the upgraded stream and runs
\* relay_connection_handler, which awaits the client's key in accept.
Upgraded(t) ==
    /\ set[t] = "running"
    /\ handler[t] = "upgrade"
    /\ set' = [set EXCEPT ![t] = "finished"]
    /\ handler' = [handler EXCEPT ![t] = "accept"]
    /\ UNCHANGED <<cancel_server_loop, http_server_task, accept_errors,
                   server_task, client, io_result>>
    /\ UNCHANGED <<client_info, server_frame>>

\* hyper::upgrade::on fails: the connection ended before the upgrade.
UpgradeError(t) ==
    /\ handler[t] = "upgrade"
    /\ set[t] # "running"
    /\ handler' = [handler EXCEPT ![t] = "completed"]
    /\ UNCHANGED <<cancel_server_loop, http_server_task, accept_errors, set,
                   server_task, client, io_result>>
    /\ UNCHANGED <<client_info, server_frame>>

\* The client's ClientInfo frame reaches the server: one that verifies and
\* carries PROTOCOL_VERSION ("good"), or one that does not ("bad").
ClientInfoArrives(t, info) ==
    /\ handler[t] = "accept"
    /\ client_info[t] = "none"
    /\ client_info' = [client_info EXCEPT ![t] = info]
    /\ UNCHANGED <<cancel_server_loop, http_server_task, accept_errors, set,
                   handler, server_task, client, io_result>>
    /\ UNCHANGED server_frame

\* Mutant: accept registers the client without its ClientInfo.
HandlerAcceptUnchecked(t) ==
    /\ handler[t] = "accept"
    /\ IF server_task = "running"
       THEN /\ handler' = [handler EXCEPT ![t] = "completed"]
            /\ client' = [client EXCEPT ![t] = "registered"]
       ELSE /\ handler' = [handler EXCEPT ![t] = "failed"]
            /\ UNCHANGED client
    /\ UNCHANGED <<cancel_server_loop, http_server_task, accept_errors, set,
                   server_task, io_result, client_info>>
    /\ UNCHANGED server_frame

\* relay_connection_handler returns.  accept fails when recv_client_key
\* times out because no ClientInfo arrived, when the ClientInfo does not
\* verify or has another version, and when the send of CreateClient finds
\* the actor gone; otherwise CreateClient is sent and the client registers.
HandlerAccept(t) ==
    /\ handler[t] = "accept"
    /\ IF client_info[t] = "good" /\ server_task = "running"
       THEN /\ handler' = [handler EXCEPT ![t] = "completed"]
            /\ client' = [client EXCEPT ![t] = "registered"]
       ELSE /\ handler' = [handler EXCEPT ![t] = "failed"]
            /\ UNCHANGED client
    /\ UNCHANGED <<cancel_server_loop, http_server_task, accept_errors, set,
                   server_task, io_result, client_info>>
    /\ UNCHANGED server_frame

\* A client connection fails on its own.
ClientConnError(t) ==
    /\ client[t] = "registered"
    /\ client' = [client EXCEPT ![t] = "shutdown"]
    /\ UNCHANGED <<cancel_server_loop, http_server_task, accept_errors, set,
                   handler, server_task, io_result>>
    /\ UNCHANGED <<client_info, server_frame>>

\* The client of connection t sends or receives.
ClientIo(t) ==
    /\ client[t] \in {"registered", "shutdown"}
    /\ io_result' = [io_result EXCEPT ![t] =
            IF client[t] = "registered" THEN "ok" ELSE "err"]
    /\ UNCHANGED <<cancel_server_loop, http_server_task, accept_errors, set,
                   handler, server_task, client>>
    /\ UNCHANGED <<client_info, server_frame>>

(***************************************************************************)
(* One HTTP request (http_server.rs 331-483).                              *)
(***************************************************************************)
RELAY_PATH == "/relay"
LEGACY_RELAY_PATH == "/derp"
SUPPORTED_WEBSOCKET_VERSION == "13"

\* Absent header.
None == "none"

Methods == {"GET", "POST"}
Paths == {RELAY_PATH, LEGACY_RELAY_PATH, "/custom", "/other"}
UpgradeValues == {None, "derp", "websocket", "h2c"}
WebSocketKeys == {None, "key1", "key2"}
WebSocketVersions == {None, SUPPORTED_WEBSOCKET_VERSION, "12"}

\* The handler tables a ServerBuilder is given.
HandlerTables ==
    { {},
      {<<"GET", "/custom">>},
      {<<"GET", RELAY_PATH>>, <<"GET", LEGACY_RELAY_PATH>>,
       <<"POST", RELAY_PATH>>, <<"POST", "/custom">>} }

\* The headers a ServerBuilder is given (ServerBuilder::headers): lists
\* of (name, value) pairs.  The second is the list the relay binary
\* passes when TLS is configured.
TLS_HEADERS ==
    << <<"Strict-Transport-Security", "max-age=63072000; includeSubDomains">>,
       <<"Content-Security-Policy",
         "default-src 'none'; frame-ancestors 'none'; form-action 'none'; base-uri 'self'; block-all-mixed-content; plugin-types 'none'">> >>

HeaderLists == { <<>>, TLS_HEADERS, << <<"X-Custom", "1">> >> }

\* A request: method, path, and the headers the service looks at;
\* challenge is the X-Tailscale-Challenge header.
Requests ==
    [method : Methods, path : Paths, upgrade : UpgradeValues,
     ws_key : WebSocketKeys, ws_version : WebSocketVersions,
     challenge : {{}}]

NoReq ==
    [method |-> None, path |-> None, upgrade |-> None,
     ws_key |-> None, ws_version |-> None, challenge |-> {}]

\* Response::builder(): a response builder without headers.
EmptyBuilder == <<>>

\* `for (key, value) in headers.iter() { builder.header(key, value) }`:
\* every configured header is appended to the builder.
WithHeaders(builder, hs) == builder \o hs

\* A response: the headers appended to its builder, status, the upgrade
\* headers, body, and which custom handler produced it.
Response(builder, status, upgrade, connection, accept, version, body, by) ==
    [headers |-> builder,
     status |-> status, upgrade |-> upgrade, connection |-> connection,
     ws_accept |-> accept, ws_version |-> version, body |-> body,
     by |-> by]

NoResp == Response(EmptyBuilder, 0, None, None, None, None, "", None)

body_empty == ""

\* Protocol::parse_header: the protocol an Upgrade header value names.
parse_header(v) ==
    IF v = "derp" THEN "Relay"
    ELSE IF v = "websocket" THEN "Websocket"
    ELSE None

\* Protocol::upgrade_header: the Upgrade header value of a protocol.
upgrade_header(protocol) ==
    IF protocol = "Relay" THEN "derp" ELSE "websocket"

\* tungstenite's derive_accept_key: a function of the key alone.
derive_accept_key(key) == <<"accept", key>>

BadRequest(builder) ==
    Response(builder, 400, None, None, None, None, body_empty, None)

\* Mutant: a websocket upgrade is answered without looking at the
\* Sec-WebSocket-Version header.
call_client_connAnyVersion(hs, r) ==
    LET builder == WithHeaders(EmptyBuilder, hs)
        protocol == parse_header(r.upgrade)
    IN  IF r.upgrade = None \/ protocol = None
        THEN [resp |-> BadRequest(builder), spawned |-> 0]
        ELSE IF protocol = "Websocket" /\ r.ws_key = None
        THEN [resp |-> BadRequest(builder), spawned |-> 0]
        ELSE [resp |-> Response(builder, 101, upgrade_header(protocol),
                    IF protocol = "Websocket" THEN "upgrade" ELSE None,
                    IF protocol = "Websocket"
                    THEN derive_accept_key(r.ws_key) ELSE None,
                    None,
                    IF protocol = "Websocket"
                    THEN "switching to websocket protocol" ELSE body_empty,
                    None),
              spawned |-> 1]

\* Mutant: a request without a usable Upgrade header is upgraded as derp.
call_client_connDefaultDerp(hs, r) ==
    LET builder == WithHeaders(EmptyBuilder, hs)
        parsed == parse_header(r.upgrade)
        protocol == IF r.upgrade = None \/ parsed = None
                    THEN "Relay" ELSE parsed
    IN  IF protocol = "Websocket" /\ r.ws_key = None
        THEN [resp |-> BadRequest(builder), spawned |-> 0]
        ELSE IF protocol = "Websocket" /\ r.ws_version = None
        THEN [resp |-> BadRequest(builder), spawned |-> 0]
        ELSE IF protocol = "Websocket"
                /\ r.ws_version # SUPPORTED_WEBSOCKET_VERSION
        THEN [resp |-> [BadRequest(builder) EXCEPT
                            !.ws_version = SUPPORTED_WEBSOCKET_VERSION],
              spawned |-> 0]
        ELSE [resp |-> Response(builder, 101, upgrade_header(protocol),
                    IF protocol = "Websocket" THEN "upgrade" ELSE None,
                    IF protocol = "Websocket"
                    THEN derive_accept_key(r.ws_key) ELSE None,
                    None,
                    IF protocol = "Websocket"
                    THEN "switching to websocket protocol" ELSE body_empty,
                    None),
              spawned |-> 1]

\* Mutant: the 101 response always names the derp protocol.
call_client_connUpgradeDerp(hs, r) ==
    LET builder == WithHeaders(EmptyBuilder, hs)
        protocol == parse_header(r.upgrade)
    IN  IF r.upgrade = None \/ protocol = None
        THEN [resp |-> BadRequest(builder), spawned |-> 0]
        ELSE IF protocol = "Websocket" /\ r.ws_key = None
        THEN [resp |-> BadRequest(builder), spawned |-> 0]
        ELSE IF protocol = "Websocket" /\ r.ws_version = None
        THEN [resp |-> BadRequest(builder), spawned |-> 0]
        ELSE IF protocol = "Websocket"
                /\ r.ws_version # SUPPORTED_WEBSOCKET_VERSION
        THEN [resp |-> [BadRequest(builder) EXCEPT
                            !.ws_version = SUPPORTED_WEBSOCKET_VERSION],
              spawned |-> 0]
        ELSE [resp |-> Response(builder, 101, "derp",
                    IF protocol = "Websocket" THEN "upgrade" ELSE None,
                    IF protocol = "Websocket"
                    THEN derive_accept_key(r.ws_key) ELSE None,
                    None,
                    IF protocol = "Websocket"
                    THEN "switching to websocket protocol" ELSE body_empty,
                    None),
              spawned |-> 1]

\* call_client_conn: the response to a GET on the relay path, and the
\* number of upgrade-handler tasks it spawned.
call_client_conn(hs, r) ==
    LET builder == WithHeaders(EmptyBuilder, hs)
        protocol == parse_header(r.upgrade)
    IN  IF r.upgrade = None \/ protocol = None
        THEN [resp |-> BadRequest(builder), spawned |-> 0]
        ELSE IF protocol = "Websocket" /\ r.ws_key = None
        THEN [resp |-> BadRequest(builder), spawned |-> 0]
        ELSE IF protocol = "Websocket" /\ r.ws_version = None
        THEN [resp |-> BadRequest(builder), spawned |-> 0]
        ELSE IF protocol = "Websocket"
                /\ r.ws_version # SUPPORTED_WEBSOCKET_VERSION
        THEN [resp |-> [BadRequest(builder) EXCEPT
                            !.ws_version = SUPPORTED_WEBSOCKET_VERSION],
              spawned |-> 0]
        ELSE [resp |-> Response(builder, 101, upgrade_header(protocol),
                    IF protocol = "Websocket" THEN "upgrade" ELSE None,
                    IF protocol = "Websocket"
                    THEN derive_accept_key(r.ws_key) ELSE None,
                    None,
                    IF protocol = "Websocket"
                    THEN "switching to websocket protocol" ELSE body_empty,
                    None),
              spawned |-> 1]

\* Mutant: the builder handed to the handlers carries no header.
default_responseBare(hs) == EmptyBuilder

\* Inner::default_response: a builder with the configured headers.
default_response(hs) == WithHeaders(EmptyBuilder, hs)

\* Inner::not_found_fn: appends the configured headers to the builder it
\* is given, which already carries them.
not_found_fn(hs, res) ==
    Response(WithHeaders(res, hs), 404, None, None, None, None,
             "Not Found", None)

\* A custom handler registered for (method, path): builds its response
\* from the builder it is given.
CustomHandler(r, response) ==
    Response(response, 200, None, None, None, None, "handler", None)

\* The handlers the relay binary registers (derper.rs 541-567).
root_handler(r, response) ==
    Response(Append(response, <<"Content-Type", "text/html; charset=utf-8">>),
             200, None, None, None, None, "INDEX", None)

probe_handler(r, response) ==
    Response(Append(response, <<"Access-Control-Allow-Origin", "*">>),
             200, None, None, None, None, body_empty, None)

robots_handler(r, response) ==
    Response(response, 200, None, None, None, None, "ROBOTS_TXT", None)

NO_CONTENT_RESPONSE_HEADER == "X-Tailscale-Response"

AsciiLowercase ==
    {"a", "b", "c", "d", "e", "f", "g", "h", "i", "j", "k", "l", "m",
     "n", "o", "p", "q", "r", "s", "t", "u", "v", "w", "x", "y", "z"}

AsciiUppercase ==
    {"A", "B", "C", "D", "E", "F", "G", "H", "I", "J", "K", "L", "M",
     "N", "O", "P", "Q", "R", "S", "T", "U", "V", "W", "X", "Y", "Z"}

AsciiDigit == {"0", "1", "2", "3", "4", "5", "6", "7", "8", "9"}

is_challenge_char(c) ==
    \/ c \in AsciiLowercase
    \/ c \in AsciiUppercase
    \/ c \in AsciiDigit
    \/ c = "."
    \/ c = "-"
    \/ c = "_"

\* format!("response {}", challenge): the text "response " followed by
\* the characters of the challenge.
FormatResponse(challenge) ==
    <<"r", "e", "s", "p", "o", "n", "s", "e", " ">> \o challenge

\* Mutant: the characters of the challenge are not looked at.
serve_no_content_handlerAnyChar(r, response) ==
    LET echo == \E challenge \in r.challenge :
                    /\ Len(challenge) # 0
                    /\ Len(challenge) < MaxChallenge
        challenge == CHOOSE c \in r.challenge : TRUE
    IN  Response(IF echo
                 THEN Append(response, <<NO_CONTENT_RESPONSE_HEADER,
                                         FormatResponse(challenge)>>)
                 ELSE response,
                 204, None, None, None, None, body_empty, None)

\* serve_no_content_handler; r.challenge is the Option of the
\* X-Tailscale-Challenge header: the empty set, or the set of its value.
serve_no_content_handler(r, response) ==
    LET echo == \E challenge \in r.challenge :
                    /\ Len(challenge) # 0
                    /\ Len(challenge) < MaxChallenge
                    /\ \A i \in DOMAIN challenge :
                            is_challenge_char(challenge[i])
        challenge == CHOOSE c \in r.challenge : TRUE
    IN  Response(IF echo
                 THEN Append(response, <<NO_CONTENT_RESPONSE_HEADER,
                                         FormatResponse(challenge)>>)
                 ELSE response,
                 204, None, None, None, None, body_empty, None)

\* The handler registered for the request's (method, path), called with
\* the request and a response builder.
HandlerResponse(r, response) ==
    LET res == CASE r.path \in {"/", "/index.html"} -> root_handler(r, response)
                 [] r.path = "/derp/probe" -> probe_handler(r, response)
                 [] r.path = "/robots.txt" -> robots_handler(r, response)
                 [] r.path = "/generate_204" ->
                        serve_no_content_handler(r, response)
                 [] OTHER -> CustomHandler(r, response)
    IN  [res EXCEPT !.by = <<r.method, r.path>>]

\* Mutant: a registered handler takes precedence over the relay endpoint.
callHandlersFirst(h, hs, r) ==
    IF <<r.method, r.path>> \in h
    THEN [resp |-> HandlerResponse(r, default_response(hs)), spawned |-> 0]
    ELSE IF r.method = "GET" /\ r.path \in {LEGACY_RELAY_PATH, RELAY_PATH}
    THEN call_client_conn(hs, r)
    ELSE [resp |-> not_found_fn(hs, default_response(hs)), spawned |-> 0]

\* RelayService::call with handler table h and configured headers hs.
call(h, hs, r) ==
    IF r.method = "GET" /\ r.path \in {LEGACY_RELAY_PATH, RELAY_PATH}
    THEN call_client_conn(hs, r)
    ELSE IF <<r.method, r.path>> \in h
    THEN [resp |-> HandlerResponse(r, default_response(hs)), spawned |-> 0]
    ELSE [resp |-> not_found_fn(hs, default_response(hs)), spawned |-> 0]

http_frame ==
    <<relay_vars, server_vars, store_vars, stun_vars, hostname_vars,
      calls_vars, get_vars, lockstep_vars, startup_vars, handshake_vars,
      tls_vars>>

\* A request arrives at a server built with handler table h and headers
\* hs.
Request(h, hs, r) ==
    /\ req = NoReq
    /\ handlers' = h
    /\ headers' = hs
    /\ req' = r
    /\ UNCHANGED <<resp, upgrade_tasks, tls_config, captive_portal_task,
                   listener>>
    /\ UNCHANGED http_frame

\* The service answers the request.
Call ==
    /\ req # NoReq
    /\ resp = NoResp
    /\ listener = "main"
    /\ resp' = call(handlers, headers, req).resp
    /\ upgrade_tasks' = upgrade_tasks + call(handlers, headers, req).spawned
    /\ UNCHANGED <<handlers, headers, req, tls_config, captive_portal_task,
                   listener>>
    /\ UNCHANGED http_frame

(***************************************************************************)
(* The relay binary (src/iroh-net/src/bin/derper.rs): main, and the        *)
(* captive-portal service.                                                 *)
(***************************************************************************)
\* Mutant: /generate_204 is registered on the relay server in every
\* configuration.
mainRegistersAlways(tls) ==
    [tls_config |-> IF tls THEN "some" ELSE "none",
     headers |-> IF tls THEN TLS_HEADERS ELSE <<>>,
     handlers |-> {<<"GET", "/">>, <<"GET", "/index.html">>,
                   <<"GET", "/derp/probe">>, <<"GET", "/robots.txt">>,
                   <<"GET", "/generate_204">>},
     captive_portal_task |-> tls]

\* main, from the TLS configuration on: the headers and the handlers it
\* gives the server builder, and whether it starts the captive-portal
\* listener.
main(tls) ==
    [tls_config |-> IF tls THEN "some" ELSE "none",
     headers |-> IF tls THEN TLS_HEADERS ELSE <<>>,
     handlers |-> {<<"GET", "/">>, <<"GET", "/index.html">>,
                   <<"GET", "/derp/probe">>, <<"GET", "/robots.txt">>}
                  \cup (IF ~tls THEN {<<"GET", "/generate_204">>} ELSE {}),
     captive_portal_task |-> tls]

\* CaptivePortalService::call.
CaptivePortalService_call(r) ==
    IF r.method = "GET" /\ r.path = "/generate_204"
    THEN serve_no_content_handler(r, EmptyBuilder)
    ELSE Response(EmptyBuilder, 404, None, None, None, None,
                  "Not Found", None)

\* The paths asked of the binary's listeners.
DerperPaths ==
    {LEGACY_RELAY_PATH, "/", "/index.html", "/derp/probe", "/robots.txt",
     "/generate_204", "/other"}

\* The characters challenges are made of: one of each kind
\* is_challenge_char tells apart, and one it refuses.
ChallengeChars == {"a", "Z", "7", ".", "-", "_", "!"}

RECURSIVE Strings(_, _)
\* The strings over alphabet of length at most n.
Strings(alphabet, n) ==
    IF n = 0 THEN {<<>>}
    ELSE LET shorter == Strings(alphabet, n - 1)
         IN  shorter \cup {Append(w, c) : w \in shorter, c \in alphabet}

Challenges == Strings(ChallengeChars, MaxChallenge)

\* Requests to the binary's listeners: upgrade requests without
\* challenge, and requests with a challenge header.
DerperRequests ==
    [method : Methods, path : DerperPaths,
     upgrade : {None, "derp", "websocket"}, ws_key : {None, "key1"},
     ws_version : {None, SUPPORTED_WEBSOCKET_VERSION}, challenge : {{}}]
    \cup
    [method : Methods, path : DerperPaths, upgrade : {None},
     ws_key : {None}, ws_version : {None},
     challenge : {{c} : c \in Challenges}]

\* main runs with or without a TLS configuration.
Main(tls) ==
    /\ tls_config = "unset"
    /\ req = NoReq
    /\ tls_config' = main(tls).tls_config
    /\ headers' = main(tls).headers
    /\ handlers' = main(tls).handlers
    /\ captive_portal_task' = main(tls).captive_portal_task
    /\ UNCHANGED <<req, resp, upgrade_tasks, listener>>
    /\ UNCHANGED http_frame

\* A request arrives at one of the binary's listeners.
DerperRequest(l, r) ==
    /\ tls_config # "unset"
    /\ req = NoReq
    /\ l = "captive_portal" => captive_portal_task
    /\ listener' = l
    /\ req' = r
    /\ UNCHANGED <<handlers, headers, resp, upgrade_tasks, tls_config,
                   captive_portal_task>>
    /\ UNCHANGED http_frame

\* The captive-portal service answers the request.
CaptivePortalCall ==
    /\ req # NoReq
    /\ resp = NoResp
    /\ listener = "captive_portal"
    /\ resp' = CaptivePortalService_call(req)
    /\ UNCHANGED <<handlers, headers, req, upgrade_tasks, tls_config,
                   captive_portal_task, listener>>
    /\ UNCHANGED http_frame

(***************************************************************************)
(* The signed-packet stores of the DNS server                              *)
(* (src/iroh-dns-server/src/store/signed_packets.rs and moka.rs).          *)
(* A store maps a public key to at most one packet: {} is no entry and     *)
(* {p} is the entry p.                                                     *)
(***************************************************************************)
\* The signed packets: the key that signed them, their timestamp and
\* their content.
SignedPackets ==
    [key : Keys, timestamp : 1 .. MaxTimestamp, body : {"x", "y"}]

NoUpsert == [store |-> "none", packet |-> {}, ret |-> {}]

\* PublicKeyBytes::from_signed_packet.
from_signed_packet(packet) == packet.key

\* SignedPacket::more_recent_than (pkarr): the packet's timestamp is
\* later than the other's.
more_recent_than(existing, packet) == existing.timestamp > packet.timestamp

\* Variant of upsert that keeps the stored packet unless the new one is
\* strictly more recent.
upsertUnlessNewer(store, packet) ==
    LET key == from_signed_packet(packet)
    IN  IF \E existing \in store[key] : ~more_recent_than(packet, existing)
        THEN [store |-> store, ret |-> FALSE]
        ELSE [store |-> [store EXCEPT ![key] = {packet}], ret |-> TRUE]

\* SignedPacketStore::upsert and MokaStore::upsert: the two bodies are the
\* same but for the map behind `store`.
upsert(store, packet) ==
    LET key == from_signed_packet(packet)
    IN  IF \E existing \in store[key] : more_recent_than(existing, packet)
        THEN [store |-> store, ret |-> FALSE]
        ELSE [store |-> [store EXCEPT ![key] = {packet}], ret |-> TRUE]

\* remove of either store.
remove(store, key) == [store EXCEPT ![key] = {}]

store_frame ==
    <<relay_vars, server_vars, http_vars, stun_vars, hostname_vars,
      calls_vars, get_vars, lockstep_vars, startup_vars, handshake_vars,
      tls_vars>>

\* SignedPacketStore::upsert(packet).
SignedPacketStore_upsert(packet) ==
    /\ signed_packet_store' = upsert(signed_packet_store, packet).store
    /\ last_upsert' = [store |-> "signed_packets", packet |-> {packet},
                       ret |-> {upsert(signed_packet_store, packet).ret}]
    /\ UNCHANGED moka_store
    /\ UNCHANGED store_frame

\* MokaStore::upsert(packet).
MokaStore_upsert(packet) ==
    /\ moka_store' = upsert(moka_store, packet).store
    /\ last_upsert' = [store |-> "moka", packet |-> {packet},
                       ret |-> {upsert(moka_store, packet).ret}]
    /\ UNCHANGED signed_packet_store
    /\ UNCHANGED store_frame

\* SignedPacketStore::remove(key).
SignedPacketStore_remove(key) ==
    /\ signed_packet_store[key] # {}
    /\ signed_packet_store' = remove(signed_packet_store, key)
    /\ UNCHANGED <<moka_store, last_upsert>>
    /\ UNCHANGED store_frame

\* MokaStore::remove(key).
MokaStore_remove(key) ==
    /\ moka_store[key] # {}
    /\ moka_store' = remove(moka_store, key)
    /\ UNCHANGED <<signed_packet_store, last_upsert>>
    /\ UNCHANGED store_frame

\* The cache drops an entry 300 seconds after it was inserted.
MokaExpire(key) ==
    /\ moka_store[key] # {}
    /\ moka_store' = [moka_store EXCEPT ![key] = {}]
    /\ UNCHANGED <<signed_packet_store, last_upsert>>
    /\ UNCHANGED store_frame

(***************************************************************************)
(* The STUN listener of the relay binary (derper.rs server_stun_listener). *)
(* The functions of the stun module are not among the source files at      *)
(* hand; they are modelled from section 4.H of spec.md.                    *)
(***************************************************************************)
\* The magic cookie at offset 4 of a STUN message.
MAGIC_COOKIE == 554869826

\* Source addresses and transaction ids of the datagrams.
Addrs == {"a1", "a2"}
TxIds == {"t1", "t2"}

\* The bytes of a datagram, as far as the stun module looks at them: the
\* cookie, the message type (method and class) and the transaction id.
Packets ==
    [cookie : {MAGIC_COOKIE, 0},
     type : {"binding_request", "binding_success"},
     txid : TxIds]

NoPacket == [cookie |-> 0, type |-> "none", txid |-> "none"]

\* A per-datagram task that has not been spawned.
NoStunTask == [pc |-> "unspawned", pkt |-> NoPacket, src_addr |-> "none",
               txid |-> "none"]

\* stun::is.
stun_is(bytes) == bytes.cookie = MAGIC_COOKIE

\* stun::parse_binding_request: Ok(txid) as {txid}, Err as {}.
parse_binding_request(bytes) ==
    IF bytes.cookie = MAGIC_COOKIE /\ bytes.type = "binding_request"
    THEN {bytes.txid}
    ELSE {}

\* stun::response.
response(txid, addr) ==
    [type |-> "binding_success", txid |-> txid, xor_mapped_address |-> addr]

\* Variant of pkt in which the task reads the listener's buffer.
pktOfBuffer(i) == stun_buffer

\* `pkt`, the task's own copy of the datagram (buffer[..n].to_vec()).
pkt(i) == stun_task[i].pkt

stun_frame ==
    <<relay_vars, server_vars, http_vars, store_vars, hostname_vars,
      calls_vars, get_vars, lockstep_vars, startup_vars, handshake_vars,
      tls_vars>>

\* sock.recv_from returns a datagram: it is copied out of the buffer and a
\* task is spawned for it, and the loop goes on.
StunRecv(bytes, src_addr) ==
    /\ stun_listener = "recv_from"
    /\ stun_received < MaxDatagrams
    /\ stun_received' = stun_received + 1
    /\ stun_buffer' = bytes
    /\ stun_datagram' = [stun_datagram EXCEPT ![stun_received + 1] =
                            [pkt |-> bytes, src_addr |-> src_addr]]
    /\ stun_task' = [stun_task EXCEPT ![stun_received + 1] =
                        [pc |-> "spawned", pkt |-> bytes,
                         src_addr |-> src_addr, txid |-> "none"]]
    /\ UNCHANGED <<stun_listener, stun_recv_errors, stun_sent>>
    /\ UNCHANGED stun_frame

\* sock.recv_from returns an error: it is logged and the loop goes on.
StunRecvError ==
    /\ stun_listener = "recv_from"
    /\ stun_recv_errors < MaxRecvErrors
    /\ stun_recv_errors' = stun_recv_errors + 1
    /\ UNCHANGED <<stun_listener, stun_received, stun_buffer, stun_datagram,
                   stun_task, stun_sent>>
    /\ UNCHANGED stun_frame

\* The task's first step: `if !stun::is(&pkt) { return; }`.
StunIs(i) ==
    /\ stun_task[i].pc = "spawned"
    /\ stun_task' = [stun_task EXCEPT ![i].pc =
                        IF stun_is(pkt(i)) THEN "parse" ELSE "ignored"]
    /\ UNCHANGED <<stun_listener, stun_received, stun_recv_errors,
                   stun_buffer, stun_datagram, stun_sent>>
    /\ UNCHANGED stun_frame

\* The task parses the binding request on a blocking thread.
StunParse(i) ==
    /\ stun_task[i].pc = "parse"
    /\ stun_task' =
          IF parse_binding_request(pkt(i)) = {}
          THEN [stun_task EXCEPT ![i].pc = "invalid"]
          ELSE [stun_task EXCEPT
                   ![i].pc = "send",
                   ![i].txid = CHOOSE txid \in parse_binding_request(pkt(i)) :
                                  TRUE]
    /\ UNCHANGED <<stun_listener, stun_received, stun_recv_errors,
                   stun_buffer, stun_datagram, stun_sent>>
    /\ UNCHANGED stun_frame

\* The task builds the response and sends it to src_addr; a send error is
\* logged.
StunSend(i, ok) ==
    /\ stun_task[i].pc = "send"
    /\ stun_task' = [stun_task EXCEPT ![i].pc =
                        IF ok THEN "sent" ELSE "send_failed"]
    /\ stun_sent' =
          IF ok
          THEN Append(stun_sent,
                      [task |-> i, to |-> stun_task[i].src_addr,
                       res |-> response(stun_task[i].txid,
                                        stun_task[i].src_addr)])
          ELSE stun_sent
    /\ UNCHANGED <<stun_listener, stun_received, stun_recv_errors,
                   stun_buffer, stun_datagram>>
    /\ UNCHANGED stun_frame

(***************************************************************************)
(* escape_hostname (derper.rs 118-121), which names the certificate files  *)
(* in manual certificate mode.  A string is a sequence of characters.      *)
(***************************************************************************)
\* The characters hostnames are made of: one of each kind the regular
\* expression tells apart, and two it matches.
HostnameChars == {"a", "Z", "7", ".", "-", "_", "%"}

Hostnames == Strings(HostnameChars, MaxHostname)

\* The regular expression [^a-zA-Z0-9-\.]: one character that is none of
\* a-z, A-Z, 0-9, '-' and '.'.
unsafe_hostname_characters(c) ==
    ~ \/ c \in AsciiLowercase
      \/ c \in AsciiUppercase
      \/ c \in AsciiDigit
      \/ c = "-"
      \/ c = "."

RECURSIVE replace(_)
\* Regex::replace with "": the leftmost match is removed.
replace(text) ==
    IF text = <<>> THEN <<>>
    ELSE IF unsafe_hostname_characters(Head(text)) THEN Tail(text)
    ELSE <<Head(text)>> \o replace(Tail(text))

RECURSIVE replace_all(_)
\* Regex::replace_all with "": every match is removed, from left to right.
replace_all(text) ==
    IF text = <<>> THEN <<>>
    ELSE IF unsafe_hostname_characters(Head(text)) THEN replace_all(Tail(text))
    ELSE <<Head(text)>> \o replace_all(Tail(text))

\* Variant of escape_hostname that removes the first match only.
escape_hostnameFirstMatch(h) == replace(h)

escape_hostname(h) == replace_all(h)

hostname_frame ==
    <<relay_vars, server_vars, http_vars, store_vars, stun_vars,
      calls_vars, get_vars, lockstep_vars, startup_vars, handshake_vars,
      tls_vars>>

\* `let keyname = escape_hostname(&hostname)` on the configured hostname.
EscapeHostname(h) ==
    /\ escapes = 0
    /\ hostname' = h
    /\ keyname' = escape_hostname(h)
    /\ escapes' = 1
    /\ UNCHANGED hostname_frame

\* escape_hostname applied to its own result.
EscapeKeyname ==
    /\ escapes = 1
    /\ keyname' = escape_hostname(keyname)
    /\ escapes' = 2
    /\ UNCHANGED hostname
    /\ UNCHANGED hostname_frame

(***************************************************************************)
(* The HTTP server's tasks with the server channel between the upgrade     *)
(* handlers and the relay server actor: client[t] = "pending" while the    *)
(* CreateClient of connection t is in the channel.  What the actor does    *)
(* with the channel when it is closed is in server/actor.rs, which is not  *)
(* among the source files at hand; it is modelled from section 5 of        *)
(* spec.md (graceful shutdown).                                            *)
(***************************************************************************)
\* Mutant: the send of CreateClient succeeds whether or not the actor is
\* there to receive it.
AcceptCreateClientUnchecked(t) ==
    /\ handler[t] = "accept"
    /\ IF client_info[t] = "good"
       THEN /\ handler' = [handler EXCEPT ![t] = "completed"]
            /\ client' = [client EXCEPT ![t] = "pending"]
       ELSE /\ handler' = [handler EXCEPT ![t] = "failed"]
            /\ UNCHANGED client
    /\ UNCHANGED <<cancel_server_loop, http_server_task, accept_errors, set,
                   server_task, io_result, client_info>>
    /\ UNCHANGED server_frame

\* accept returns: an error when no acceptable ClientInfo arrived or when
\* the send finds the channel closed (the actor is gone); otherwise
\* CreateClient is in the server channel.
AcceptCreateClient(t) ==
    /\ handler[t] = "accept"
    /\ IF client_info[t] = "good" /\ server_task \in {"running", "draining"}
       THEN /\ handler' = [handler EXCEPT ![t] = "completed"]
            /\ client' = [client EXCEPT ![t] = "pending"]
       ELSE /\ handler' = [handler EXCEPT ![t] = "failed"]
            /\ UNCHANGED client
    /\ UNCHANGED <<cancel_server_loop, http_server_task, accept_errors, set,
                   server_task, io_result, client_info>>
    /\ UNCHANGED server_frame

\* The actor takes CreateClient from the channel and registers the client.
ActorRegister(t) ==
    /\ server_task = "running"
    /\ client[t] = "pending"
    /\ client' = [client EXCEPT ![t] = "registered"]
    /\ UNCHANGED <<cancel_server_loop, http_server_task, accept_errors, set,
                   handler, server_task, io_result>>
    /\ UNCHANGED <<client_info, server_frame>>

\* server_task.close() is called: the actor cancels every slot.
CloseRequested ==
    /\ http_server_task = "close"
    /\ server_task = "running"
    /\ server_task' = "draining"
    /\ client' = ShutdownAll(client)
    /\ UNCHANGED <<cancel_server_loop, http_server_task, accept_errors, set,
                   handler, io_result>>
    /\ UNCHANGED <<client_info, server_frame>>

\* The closing actor takes a remaining CreateClient from the channel: the
\* connection it carries is shut down.
ActorDrain(t) ==
    /\ server_task = "draining"
    /\ client[t] = "pending"
    /\ client' = [client EXCEPT ![t] = "shutdown"]
    /\ UNCHANGED <<cancel_server_loop, http_server_task, accept_errors, set,
                   handler, server_task, io_result>>
    /\ UNCHANGED <<client_info, server_frame>>

\* The channel is empty: the actor exits, and `server_task.close().await`
\* returns in the supervisor if it is still waiting.
ActorExit ==
    /\ server_task = "draining"
    /\ \A t \in Tasks : client[t] # "pending"
    /\ server_task' = "closed"
    /\ http_server_task' =
          IF http_server_task = "close" THEN "shutdown" ELSE http_server_task
    /\ UNCHANGED <<cancel_server_loop, accept_errors, set, handler, client,
                   io_result>>
    /\ UNCHANGED <<client_info, server_frame>>

(***************************************************************************)
(* Calls on the signed-packet stores that run at the same time.  upsert    *)
(* looks the key up and inserts afterwards: these are two accesses to the  *)
(* map (signed_packets.rs 30 and 37, moka.rs 29 and 36), and another call  *)
(* can come between them.  remove is one access.                           *)
(***************************************************************************)
Stores == {"signed_packets", "moka"}

NoMetrics ==
    [store_packets_inserted |-> 0, store_packets_updated |-> 0,
     store_packets_removed |-> 0]

\* A call that has not been made.
NoCall ==
    [pc |-> "idle", op |-> "none", store |-> "none", key |-> NoKey,
     packet |-> {}, replaced |-> {}, ret |-> {}]

\* The map of store s.
StoreMap(s) == IF s = "signed_packets" THEN signed_packet_store ELSE moka_store

\* inc!(Metrics, counter), for the counter the call of store s increments.
inc(metrics, s, counter) ==
    [metrics EXCEPT ![s][counter] = @ + 1]

calls_frame ==
    <<relay_vars, server_vars, http_vars, stun_vars, hostname_vars,
      get_vars, lockstep_vars, startup_vars, handshake_vars, tls_vars>>

\* The map of store s becomes m.
SetStoreMap(s, m) ==
    /\ signed_packet_store' = IF s = "signed_packets" THEN m
                              ELSE signed_packet_store
    /\ moka_store' = IF s = "moka" THEN m ELSE moka_store

\* The calls are numbered in the order they start.
NextCall(i) ==
    /\ store_call[i].pc = "idle"
    /\ \A j \in 1 .. MaxCalls : j < i => store_call[j].pc # "idle"

\* upsert(packet) on store s starts: the lookup.  It returns Ok(false) when
\* the entry it finds is more recent; otherwise it goes on to the insert,
\* with `replaced` telling whether it found an entry.
UpsertLookup(i, s, packet) ==
    /\ NextCall(i)
    /\ LET key == from_signed_packet(packet)
           existing == StoreMap(s)[key]
       IN  store_call' = [store_call EXCEPT ![i] =
              IF \E e \in existing : more_recent_than(e, packet)
              THEN [pc |-> "returned", op |-> "upsert", store |-> s,
                    key |-> key, packet |-> {packet}, replaced |-> {},
                    ret |-> {FALSE}]
              ELSE [pc |-> "insert", op |-> "upsert", store |-> s,
                    key |-> key, packet |-> {packet},
                    replaced |-> {existing # {}}, ret |-> {}]]
    /\ UNCHANGED <<signed_packet_store, moka_store, last_upsert,
                   store_metrics>>
    /\ UNCHANGED calls_frame

\* The call goes on: insert, the metrics counter, Ok(true).
UpsertInsert(i) ==
    /\ store_call[i].pc = "insert"
    /\ LET s == store_call[i].store
           key == store_call[i].key
       IN  /\ SetStoreMap(s, [StoreMap(s) EXCEPT ![key] = store_call[i].packet])
           /\ store_metrics' =
                 IF store_call[i].replaced = {TRUE}
                 THEN inc(store_metrics, s, "store_packets_updated")
                 ELSE inc(store_metrics, s, "store_packets_inserted")
    /\ store_call' = [store_call EXCEPT ![i].pc = "returned",
                                        ![i].ret = {TRUE}]
    /\ UNCHANGED last_upsert
    /\ UNCHANGED calls_frame

\* remove(key) on store s.
RemoveCall(i, s, key) ==
    /\ NextCall(i)
    /\ LET existed == StoreMap(s)[key] # {}
       IN  /\ SetStoreMap(s, remove(StoreMap(s), key))
           /\ store_metrics' =
                 IF existed THEN inc(store_metrics, s, "store_packets_removed")
                 ELSE store_metrics
           /\ store_call' = [store_call EXCEPT ![i] =
                 [pc |-> "returned", op |-> "remove", store |-> s,
                  key |-> key, packet |-> {}, replaced |-> {},
                  ret |-> {existed}]]
    /\ UNCHANGED last_upsert
    /\ UNCHANGED calls_frame

(***************************************************************************)
(* get on the signed-packet stores, between upserts, removes and the moka  *)
(* cache's expiry, one call at a time.  newest_got[s][k] is the most       *)
(* recent packet a get of store s has returned for key k since remove was  *)
(* last called for k.                                                      *)
(***************************************************************************)
NoGet == [store |-> "none", key |-> NoKey, packet |-> {}]

\* One packet for each key and timestamp: what get returns is compared by
\* recency only.
OnePerTimestamp == {packet \in SignedPackets : packet.body = "x"}

\* The more recent of two optional packets.
MoreRecent(a, b) ==
    IF a = {} THEN b
    ELSE IF \E p \in a, q \in b : more_recent_than(q, p) THEN b
    ELSE a

\* SignedPacketStore::get and MokaStore::get: the entry of the key, if any.
get(store, key) == store[key]

get_frame ==
    <<relay_vars, server_vars, http_vars, stun_vars, hostname_vars,
      calls_vars, lockstep_vars, startup_vars, handshake_vars, tls_vars>>

\* upsert(packet) on store s, from the call to its return.
UpsertCall(s, packet) ==
    /\ SetStoreMap(s, upsert(StoreMap(s), packet).store)
    /\ UNCHANGED <<last_upsert, newest_got, last_get>>
    /\ UNCHANGED get_frame

\* get(key) on store s.
GetCall(s, key) ==
    /\ last_get' = [store |-> s, key |-> key, packet |-> get(StoreMap(s), key)]
    /\ newest_got' = [newest_got EXCEPT ![s][key] =
                         MoreRecent(@, get(StoreMap(s), key))]
    /\ UNCHANGED <<signed_packet_store, moka_store, last_upsert>>
    /\ UNCHANGED get_frame

\* remove(key) on store s: what gets returned for the key before the
\* remove no longer counts.
RemoveKey(s, key) ==
    /\ StoreMap(s)[key] # {}
    /\ SetStoreMap(s, remove(StoreMap(s), key))
    /\ newest_got' = [newest_got EXCEPT ![s][key] = {}]
    /\ UNCHANGED <<last_upsert, last_get>>
    /\ UNCHANGED get_frame

(***************************************************************************)
(* The two stores driven by the same calls, one call after the other: each *)
(* call is made on the SignedPacketStore and on the MokaStore, and returns *)
(* on both before the next one starts.  Each store's functions are         *)
(* translated from its own file.                                           *)
(***************************************************************************)
\* No call has returned yet.
NoResult == [op |-> "none", ok |-> {}, packet |-> {}]

\* Variant of MokaStore::upsert that counts every stored packet as
\* inserted.
MokaStoreUpsertCountsInserted(cache, metrics, packet) ==
    LET key == from_signed_packet(packet)
        existing == cache[key]
    IN  IF \E e \in existing : more_recent_than(e, packet)
        THEN [store |-> cache, metrics |-> metrics, ok |-> FALSE]
        ELSE [store |-> [cache EXCEPT ![key] = {packet}],
              metrics |-> [metrics EXCEPT !.store_packets_inserted = @ + 1],
              ok |-> TRUE]

\* SignedPacketStore::upsert on the DashMap.
SignedPacketStoreUpsert(map, metrics, packet) ==
    LET key == from_signed_packet(packet)
        existing == map[key]
        replaced == existing # {}
    IN  IF \E e \in existing : more_recent_than(e, packet)
        THEN [store |-> map, metrics |-> metrics, ok |-> FALSE]
        ELSE [store |-> [map EXCEPT ![key] = {packet}],
              metrics |->
                  IF replaced
                  THEN [metrics EXCEPT !.store_packets_updated = @ + 1]
                  ELSE [metrics EXCEPT !.store_packets_inserted = @ + 1],
              ok |-> TRUE]

\* MokaStore::upsert on the cache.
MokaStoreUpsert(cache, metrics, packet) ==
    LET key == from_signed_packet(packet)
        existing == cache[key]
        replaced == existing # {}
    IN  IF \E e \in existing : more_recent_than(e, packet)
        THEN [store |-> cache, metrics |-> metrics, ok |-> FALSE]
        ELSE [store |-> [cache EXCEPT ![key] = {packet}],
              metrics |->
                  IF replaced
                  THEN [metrics EXCEPT !.store_packets_updated = @ + 1]
                  ELSE [metrics EXCEPT !.store_packets_inserted = @ + 1],
              ok |-> TRUE]

\* SignedPacketStore::get: a copy of the entry, if any.
SignedPacketStoreGet(map, key) == map[key]

\* MokaStore::get: the cache's entry, if any.
MokaStoreGet(cache, key) == cache[key]

\* SignedPacketStore::remove.
SignedPacketStoreRemove(map, metrics, key) ==
    LET existed == map[key] # {}
    IN  [store |-> [map EXCEPT ![key] = {}],
         metrics |-> IF existed
                     THEN [metrics EXCEPT !.store_packets_removed = @ + 1]
                     ELSE metrics,
         ok |-> existed]

\* MokaStore::remove.
MokaStoreRemove(cache, metrics, key) ==
    LET updated == cache[key] # {}
    IN  [store |-> [cache EXCEPT ![key] = {}],
         metrics |-> IF updated
                     THEN [metrics EXCEPT !.store_packets_removed = @ + 1]
                     ELSE metrics,
         ok |-> updated]

lockstep_frame ==
    <<relay_vars, server_vars, http_vars, stun_vars, hostname_vars,
      get_vars, startup_vars, handshake_vars, tls_vars>>

\* upsert(packet) is called on both stores.
SequentialUpsert(packet) ==
    /\ sequential_calls < MaxSequentialCalls
    /\ sequential_calls' = sequential_calls + 1
    /\ LET d == SignedPacketStoreUpsert(signed_packet_store,
                    store_metrics["signed_packets"], packet)
           m == MokaStoreUpsert(moka_store, store_metrics["moka"], packet)
       IN  /\ signed_packet_store' = d.store
           /\ moka_store' = m.store
           /\ store_metrics' = [signed_packets |-> d.metrics,
                                moka |-> m.metrics]
           /\ last_result' =
                 [signed_packets |->
                      [op |-> "upsert", ok |-> {d.ok}, packet |-> {}],
                  moka |-> [op |-> "upsert", ok |-> {m.ok}, packet |-> {}]]
    /\ UNCHANGED <<last_upsert, store_call, moka_expired>>
    /\ UNCHANGED lockstep_frame

\* get(key) is called on both stores.
SequentialGet(key) ==
    /\ sequential_calls < MaxSequentialCalls
    /\ sequential_calls' = sequential_calls + 1
    /\ last_result' =
          [signed_packets |->
               [op |-> "get", ok |-> {},
                packet |-> SignedPacketStoreGet(signed_packet_store, key)],
           moka |-> [op |-> "get", ok |-> {},
                     packet |-> MokaStoreGet(moka_store, key)]]
    /\ UNCHANGED <<signed_packet_store, moka_store, last_upsert, store_call,
                   store_metrics, moka_expired>>
    /\ UNCHANGED lockstep_frame

\* remove(key) is called on both stores.
SequentialRemove(key) ==
    /\ sequential_calls < MaxSequentialCalls
    /\ sequential_calls' = sequential_calls + 1
    /\ LET d == SignedPacketStoreRemove(signed_packet_store,
                    store_metrics["signed_packets"], key)
           m == MokaStoreRemove(moka_store, store_metrics["moka"], key)
       IN  /\ signed_packet_store' = d.store
           /\ moka_store' = m.store
           /\ store_metrics' = [signed_packets |-> d.metrics,
                                moka |-> m.metrics]
           /\ last_result' =
                 [signed_packets |->
                      [op |-> "remove", ok |-> {d.ok}, packet |-> {}],
                  moka |-> [op |-> "remove", ok |-> {m.ok}, packet |-> {}]]
    /\ UNCHANGED <<last_upsert, store_call, moka_expired>>
    /\ UNCHANGED lockstep_frame

\* Between two calls the cache drops an entry that is 300 seconds old
\* (time_to_live, moka.rs 19-21).
CacheExpires(key) ==
    /\ moka_store[key] # {}
    /\ moka_store' = [moka_store EXCEPT ![key] = {}]
    /\ moka_expired' = TRUE
    /\ UNCHANGED <<signed_packet_store, last_upsert, store_call,
                   store_metrics, sequential_calls, last_result>>
    /\ UNCHANGED lockstep_frame

(***************************************************************************)
(* The start of the relay binary (derper.rs main, 303-424): the listening  *)
(* address, the check of the captive-portal port, the STUN task, the TLS   *)
(* setup, the relay server and the captive-portal listener.  `bound` keeps *)
(* every listener that was bound, also after main has failed.              *)
(***************************************************************************)
\* Only used in dev mode when the given port is 443.
DEV_PORT == 3340
\* Only used when TLS is enabled and no captive-portal port is given.
DEFAULT_CAPTIVE_PORTAL_PORT == 80
\* Config.stun_port by default (UDP).
DEFAULT_DERP_STUN_PORT == 3478

\* The TCP ports of the configurations.
Ports == {80, 443, DEV_PORT, 8080}

\* TlsConfig, as far as main's port logic reads it.
TlsConfigs == [captive_portal_port : {{}} \cup {{p} : p \in Ports}]

\* Config, as far as main's port logic reads it; addr_port is the port of
\* Config.addr.
Configs ==
    [dev : BOOLEAN, addr_port : Ports,
     tls : {{}} \cup {{t} : t \in TlsConfigs}, enable_stun : BOOLEAN]

\* No configuration loaded yet.
NoConfig == [dev |-> FALSE, addr_port |-> 0, tls |-> {}, enable_stun |-> FALSE]

\* Option::unwrap_or.
unwrap_or(option, default) ==
    IF option = {} THEN default ELSE CHOOSE v \in option : TRUE

startup_frame ==
    <<relay_vars, server_vars, http_vars, store_vars, stun_vars,
      hostname_vars, calls_vars, get_vars, lockstep_vars, handshake_vars,
      tls_vars>>

\* Cli::parse, Config::load and the choice of (addr, tls_config): dev mode
\* runs without TLS, and on DEV_PORT when the configured port is 443.
LoadConfig(c) ==
    /\ startup_pc = "start"
    /\ startup_pc' = "loaded"
    /\ main_cfg' = c
    /\ main_addr' = IF c.dev
               THEN IF c.addr_port # 443 THEN c.addr_port ELSE DEV_PORT
               ELSE c.addr_port
    /\ main_tls_config' = IF c.dev THEN {} ELSE c.tls
    /\ UNCHANGED <<captive_portal_port, serve_stun_task, bound>>
    /\ UNCHANGED startup_frame

\* The check of the captive-portal port: main bails when a TLS
\* configuration names a captive_portal_port equal to the main port.
CheckPorts ==
    /\ startup_pc = "loaded"
    /\ startup_pc' =
          IF \E t \in main_tls_config :
                \E p \in t.captive_portal_port : main_addr = p
          THEN "failed"
          ELSE "checked"
    /\ UNCHANGED <<main_cfg, main_addr, main_tls_config, captive_portal_port,
                   serve_stun_task, bound>>
    /\ UNCHANGED startup_frame

\* "run stun": the task that runs serve_stun is spawned when STUN is
\* enabled.
RunStun ==
    /\ startup_pc = "checked"
    /\ startup_pc' = "stun"
    /\ serve_stun_task' = IF main_cfg.enable_stun THEN "spawned" ELSE "none"
    /\ UNCHANGED <<main_cfg, main_addr, main_tls_config, captive_portal_port, bound>>
    /\ UNCHANGED startup_frame

\* serve_stun, in its task: it binds the UDP socket, or logs the error.
ServeStunBind(ok) ==
    /\ serve_stun_task = "spawned"
    /\ IF ok
       THEN /\ serve_stun_task' = "running"
            /\ bound' = bound \cup {[listener |-> "stun",
                                     port |-> DEFAULT_DERP_STUN_PORT]}
       ELSE /\ serve_stun_task' = "failed"
            /\ UNCHANGED bound
    /\ UNCHANGED <<startup_pc, main_cfg, main_addr,
                   main_tls_config,
                   captive_portal_port>>
    /\ UNCHANGED startup_frame

\* "set up tls configuration details": gen_server_config may fail; the
\* captive-portal port is the configured one, or the default.
TlsSetup(ok) ==
    /\ startup_pc = "stun"
    /\ IF main_tls_config = {}
       THEN /\ startup_pc' = "configured"
            /\ captive_portal_port' = 0
       ELSE IF ok
       THEN /\ startup_pc' = "configured"
            /\ captive_portal_port' =
                  LET t == CHOOSE t \in main_tls_config : TRUE
                  IN  unwrap_or(t.captive_portal_port,
                                DEFAULT_CAPTIVE_PORTAL_PORT)
       ELSE /\ startup_pc' = "failed"
            /\ UNCHANGED captive_portal_port
    /\ UNCHANGED <<main_cfg, main_addr, main_tls_config, serve_stun_task, bound>>
    /\ UNCHANGED startup_frame

\* builder.spawn().await?: the relay server binds the main address.
SpawnRelayServer(ok) ==
    /\ startup_pc = "configured"
    /\ IF ok
       THEN /\ startup_pc' = "relay_spawned"
            /\ bound' = bound \cup {[listener |-> "relay", port |-> main_addr]}
       ELSE /\ startup_pc' = "failed"
            /\ UNCHANGED bound
    /\ UNCHANGED <<main_cfg, main_addr, main_tls_config, captive_portal_port,
                   serve_stun_task>>
    /\ UNCHANGED startup_frame

\* With TLS, serve_captive_portal_service(http_addr).await?: the bind of
\* (addr.ip(), captive_portal_port) fails when the relay server listens
\* there, and may fail otherwise.  Then main waits for ctrl_c.
ServeCaptivePortal(ok) ==
    /\ startup_pc = "relay_spawned"
    /\ IF main_tls_config = {}
       THEN /\ startup_pc' = "running"
            /\ UNCHANGED bound
       ELSE IF ok /\ [listener |-> "relay", port |-> captive_portal_port]
                        \notin bound
       THEN /\ startup_pc' = "running"
            /\ bound' = bound \cup {[listener |-> "captive_portal",
                                     port |-> captive_portal_port]}
       ELSE /\ startup_pc' = "failed"
            /\ UNCHANGED bound
    /\ UNCHANGED <<main_cfg, main_addr, main_tls_config, captive_portal_port,
                   serve_stun_task>>
    /\ UNCHANGED startup_frame

(***************************************************************************)
(* The upgrade handler from the upgraded connection on (http_server.rs     *)
(* downcast_upgrade 64-71, relay_connection_handler 490-500 and accept     *)
(* 512-557).  That the actor registers the client of a CreateClient is in  *)
(* server/actor.rs, not among the source files at hand (spec.md 4.F).      *)
(***************************************************************************)
Upgrades == 1 .. MaxUpgrades

\* The bytes hyper had read past the request when it upgraded.
ReadBufs == UNION {[1 .. n -> {"byte"}] : n \in 0 .. MaxReadBuf}

\* What hyper::upgrade::on hands over: the protocol of the request, the
\* type of the connection's io and the bytes read past the request.
UpgradedConns ==
    [protocol : {"Relay", "Websocket"},
     io : {"TokioIo<MaybeTlsStream>", "other"}, read_buf : ReadBufs]

NoUpgraded == [protocol |-> "none", io |-> "none", read_buf |-> <<>>]

\* downcast_upgrade: the stream and the read buffer, or the error.
downcast_upgrade(u) ==
    IF u.io = "TokioIo<MaybeTlsStream>"
    THEN [ok |-> TRUE, read_buf |-> u.read_buf]
    ELSE [ok |-> FALSE, read_buf |-> <<>>]

\* The start of accept: inc!(Metrics, derp_accepts) or
\* inc!(Metrics, websocket_accepts).
accept_inc(metrics, protocol) ==
    IF protocol = "Relay"
    THEN [metrics EXCEPT !.derp_accepts = @ + 1]
    ELSE [metrics EXCEPT !.websocket_accepts = @ + 1]

handshake_frame ==
    <<relay_vars, server_vars, http_vars, store_vars, stun_vars,
      hostname_vars, calls_vars, get_vars, lockstep_vars, startup_vars,
      tls_vars>>

\* hyper::upgrade::on(&mut req) returns the upgraded connection.
UpgradeOn(i, u) ==
    /\ handshake_pc[i] = "none"
    /\ \A j \in Upgrades : j < i => handshake_pc[j] # "none"
    /\ upgraded' = [upgraded EXCEPT ![i] = u]
    /\ handshake_pc' = [handshake_pc EXCEPT ![i] = "upgraded"]
    /\ UNCHANGED <<handshake_error, accept_metrics, create_client_sent,
                   client_slot>>
    /\ UNCHANGED handshake_frame

\* Variant of relay_connection_handler that does not look at read_buf.
RelayConnectionHandlerDropsReadBuf(i) ==
    /\ handshake_pc[i] = "upgraded"
    /\ IF ~downcast_upgrade(upgraded[i]).ok
       THEN /\ handshake_pc' = [handshake_pc EXCEPT ![i] = "failed"]
            /\ handshake_error' = [handshake_error EXCEPT ![i] = "downcast"]
            /\ UNCHANGED accept_metrics
       ELSE /\ handshake_pc' = [handshake_pc EXCEPT ![i] = "recv_client_key"]
            /\ accept_metrics' =
                  accept_inc(accept_metrics, upgraded[i].protocol)
            /\ UNCHANGED handshake_error
    /\ UNCHANGED <<upgraded, create_client_sent, client_slot>>
    /\ UNCHANGED handshake_frame

\* relay_connection_handler up to accept's first await: downcast_upgrade,
\* the check of read_buf, and accept's metric.
RelayConnectionHandler(i) ==
    /\ handshake_pc[i] = "upgraded"
    /\ IF ~downcast_upgrade(upgraded[i]).ok
       THEN /\ handshake_pc' = [handshake_pc EXCEPT ![i] = "failed"]
            /\ handshake_error' = [handshake_error EXCEPT ![i] = "downcast"]
            /\ UNCHANGED accept_metrics
       ELSE IF downcast_upgrade(upgraded[i]).read_buf # <<>>
       THEN /\ handshake_pc' = [handshake_pc EXCEPT ![i] = "failed"]
            /\ handshake_error' = [handshake_error EXCEPT ![i] = "buffered"]
            /\ UNCHANGED accept_metrics
       ELSE /\ handshake_pc' = [handshake_pc EXCEPT ![i] = "recv_client_key"]
            /\ accept_metrics' =
                  accept_inc(accept_metrics, upgraded[i].protocol)
            /\ UNCHANGED handshake_error
    /\ UNCHANGED <<upgraded, create_client_sent, client_slot>>
    /\ UNCHANGED handshake_frame

\* accept: recv_client_key returns, and the version is checked.  `info` is
\* "good" for a ClientInfo that verifies and has PROTOCOL_VERSION.
RecvClientKey(i, info) ==
    /\ handshake_pc[i] = "recv_client_key"
    /\ IF info = "good"
       THEN /\ handshake_pc' = [handshake_pc EXCEPT ![i] = "create_client"]
            /\ UNCHANGED handshake_error
       ELSE /\ handshake_pc' = [handshake_pc EXCEPT ![i] = "failed"]
            /\ handshake_error' = [handshake_error EXCEPT ![i] = info]
    /\ UNCHANGED <<upgraded, accept_metrics, create_client_sent, client_slot>>
    /\ UNCHANGED handshake_frame

\* accept: server_channel.send(Message::CreateClient(..)); it fails when
\* the channel is closed.
SendCreateClient(i, ok) ==
    /\ handshake_pc[i] = "create_client"
    /\ IF ok
       THEN /\ handshake_pc' = [handshake_pc EXCEPT ![i] = "completed"]
            /\ create_client_sent' = [create_client_sent EXCEPT ![i] = TRUE]
            /\ UNCHANGED handshake_error
       ELSE /\ handshake_pc' = [handshake_pc EXCEPT ![i] = "failed"]
            /\ handshake_error' =
                  [handshake_error EXCEPT ![i] = "channel_closed"]
            /\ UNCHANGED create_client_sent
    /\ UNCHANGED <<upgraded, accept_metrics, client_slot>>
    /\ UNCHANGED handshake_frame

\* The actor takes the CreateClient off the channel and registers the
\* client.
RegisterSlot(i) ==
    /\ create_client_sent[i]
    /\ ~client_slot[i]
    /\ client_slot' = [client_slot EXCEPT ![i] = TRUE]
    /\ UNCHANGED <<upgraded, handshake_pc, handshake_error, accept_metrics,
                   create_client_sent>>
    /\ UNCHANGED handshake_frame

(***************************************************************************)
(* RelayService::tls_serve_connection (http_server.rs 617-644): the task   *)
(* of a connection to a server with a TLS configuration.  What the         *)
(* acceptors answer is their own (tokio_rustls_acme, tokio_rustls) and is  *)
(* chosen freely among the results their types allow.                      *)
(***************************************************************************)
TlsConns == 1 .. MaxTlsConns

\* TlsAcceptor.
TlsAcceptors == {"LetsEncrypt", "Manual"}

\* What AcmeAcceptor::accept returns: an error, None for a TLS-ALPN-01
\* validation request, or Some(start_handshake).
AcmeAccepts == {"error", "validation", "start_handshake"}

tls_frame ==
    <<relay_vars, server_vars, http_vars, store_vars, stun_vars,
      hostname_vars, calls_vars, get_vars, lockstep_vars, startup_vars,
      handshake_vars>>

\* handle_connection with Some(tls_config): tls_serve_connection starts
\* and awaits the acceptor.
TlsServeConnection(i, acceptor) ==
    /\ tls_pc[i] = "none"
    /\ \A j \in TlsConns : j < i => tls_pc[j] # "none"
    /\ tls_acceptor' = [tls_acceptor EXCEPT ![i] = acceptor]
    /\ tls_pc' = [tls_pc EXCEPT ![i] = "accept"]
    /\ UNCHANGED <<tls_accepted, tls_handshake, tls_result, served_http,
                   relay_route>>
    /\ UNCHANGED tls_frame

\* Variant of the LetsEncrypt arm that goes on to serve a validation
\* request.
AcmeAcceptServesValidation(i, res) ==
    /\ tls_pc[i] = "accept"
    /\ tls_acceptor[i] = "LetsEncrypt"
    /\ tls_accepted' = [tls_accepted EXCEPT ![i] = res]
    /\ IF res = "error"
       THEN /\ tls_pc' = [tls_pc EXCEPT ![i] = "returned"]
            /\ tls_result' = [tls_result EXCEPT ![i] = "Err"]
            /\ tls_handshake' = [tls_handshake EXCEPT ![i] = "failed"]
       ELSE IF res = "validation"
       THEN /\ tls_pc' = [tls_pc EXCEPT ![i] = "serving"]
            /\ UNCHANGED <<tls_result, tls_handshake>>
       ELSE /\ tls_pc' = [tls_pc EXCEPT ![i] = "handshake"]
            /\ UNCHANGED <<tls_result, tls_handshake>>
    /\ UNCHANGED <<tls_acceptor, served_http, relay_route>>
    /\ UNCHANGED tls_frame

\* The LetsEncrypt arm: `a.accept(stream).await?`, then None ends the
\* function with Ok(()) and Some(start_handshake) goes on to the
\* handshake.
AcmeAccept(i, res) ==
    /\ tls_pc[i] = "accept"
    /\ tls_acceptor[i] = "LetsEncrypt"
    /\ tls_accepted' = [tls_accepted EXCEPT ![i] = res]
    /\ IF res = "error"
       THEN /\ tls_pc' = [tls_pc EXCEPT ![i] = "returned"]
            /\ tls_result' = [tls_result EXCEPT ![i] = "Err"]
            /\ tls_handshake' = [tls_handshake EXCEPT ![i] = "failed"]
       ELSE IF res = "validation"
       THEN /\ tls_pc' = [tls_pc EXCEPT ![i] = "returned"]
            /\ tls_result' = [tls_result EXCEPT ![i] = "Ok"]
            /\ UNCHANGED tls_handshake
       ELSE /\ tls_pc' = [tls_pc EXCEPT ![i] = "handshake"]
            /\ UNCHANGED <<tls_result, tls_handshake>>
    /\ UNCHANGED <<tls_acceptor, served_http, relay_route>>
    /\ UNCHANGED tls_frame

\* start_handshake.into_stream(config).await.context("TLS[acme]
\* handshake")?.
IntoStream(i, ok) ==
    /\ tls_pc[i] = "handshake"
    /\ IF ok
       THEN /\ tls_pc' = [tls_pc EXCEPT ![i] = "serving"]
            /\ tls_handshake' = [tls_handshake EXCEPT ![i] = "succeeded"]
            /\ UNCHANGED tls_result
       ELSE /\ tls_pc' = [tls_pc EXCEPT ![i] = "returned"]
            /\ tls_handshake' = [tls_handshake EXCEPT ![i] = "failed"]
            /\ tls_result' = [tls_result EXCEPT ![i] = "Err"]
    /\ UNCHANGED <<tls_acceptor, tls_accepted, served_http, relay_route>>
    /\ UNCHANGED tls_frame

\* The Manual arm: a.accept(stream).await.context("TLS[manual] accept")?
\* is the handshake.
ManualAccept(i, ok) ==
    /\ tls_pc[i] = "accept"
    /\ tls_acceptor[i] = "Manual"
    /\ IF ok
       THEN /\ tls_pc' = [tls_pc EXCEPT ![i] = "serving"]
            /\ tls_handshake' = [tls_handshake EXCEPT ![i] = "succeeded"]
            /\ UNCHANGED tls_result
       ELSE /\ tls_pc' = [tls_pc EXCEPT ![i] = "returned"]
            /\ tls_handshake' = [tls_handshake EXCEPT ![i] = "failed"]
            /\ tls_result' = [tls_result EXCEPT ![i] = "Err"]
    /\ UNCHANGED <<tls_acceptor, tls_accepted, served_http, relay_route>>
    /\ UNCHANGED tls_frame

\* serve_connection(MaybeTlsStream::Tls(tls_stream)) processes a request;
\* `relay` tells whether it is for the relay route.
ServeTlsRequest(i, relay) ==
    /\ tls_pc[i] = "serving"
    /\ served_http' = [served_http EXCEPT ![i] = TRUE]
    /\ relay_route' = [relay_route EXCEPT ![i] = @ \/ relay]
    /\ UNCHANGED <<tls_acceptor, tls_pc, tls_accepted, tls_handshake,
                   tls_result>>
    /\ UNCHANGED tls_frame

\* serve_connection returns, and tls_serve_connection with it.
ServeTlsReturns(i, ok) ==
    /\ tls_pc[i] = "serving"
    /\ tls_pc' = [tls_pc EXCEPT ![i] = "returned"]
    /\ tls_result' = [tls_result EXCEPT ![i] = IF ok THEN "Ok" ELSE "Err"]
    /\ UNCHANGED <<tls_acceptor, tls_accepted, tls_handshake, served_http,
                   relay_route>>
    /\ UNCHANGED tls_frame

(***************************************************************************)
(* The specification.                                                      *)
(***************************************************************************)
Init ==
    /\ conn = [c \in Conns |-> FreeConn]
    /\ cancelled = [c \in Conns |-> FALSE]
    /\ server_channel = <<>>
    /\ clients = {}
    /\ next_epoch = 1
    /\ actor_pc = "recv"
    /\ actor_msg = NoMsg
    /\ mailbox = [c \in Conns |-> <<>>]
    /\ received = [c \in Conns |-> <<>>]
    /\ emitted = 0
    /\ packets_dropped_full_mailbox = 0
    /\ cancel_server_loop = FALSE
    /\ http_server_task = "select"
    /\ accept_errors = 0
    /\ set = [t \in Tasks |-> "unspawned"]
    /\ handler = [t \in Tasks |-> "unspawned"]
    /\ server_task = "running"
    /\ client = [t \in Tasks |-> "none"]
    /\ io_result = [t \in Tasks |-> "none"]
    /\ client_info = [t \in Tasks |-> "none"]
    /\ handlers = {}
    /\ headers = <<>>
    /\ req = NoReq
    /\ resp = NoResp
    /\ upgrade_tasks = 0
    /\ tls_config = "unset"
    /\ captive_portal_task = FALSE
    /\ listener = "main"
    /\ signed_packet_store = [k \in Keys |-> {}]
    /\ moka_store = [k \in Keys |-> {}]
    /\ last_upsert = NoUpsert
    /\ stun_listener = "recv_from"
    /\ stun_received = 0
    /\ stun_recv_errors = 0
    /\ stun_buffer = NoPacket
    /\ stun_datagram = [i \in 1 .. MaxDatagrams |->
                          [pkt |-> NoPacket, src_addr |-> "none"]]
    /\ stun_task = [i \in 1 .. MaxDatagrams |-> NoStunTask]
    /\ stun_sent = <<>>
    /\ hostname = <<>>
    /\ keyname = <<>>
    /\ escapes = 0
    /\ store_call = [i \in 1 .. MaxCalls |-> NoCall]
    /\ store_metrics = [s \in Stores |-> NoMetrics]
    /\ newest_got = [s \in Stores |-> [k \in Keys |-> {}]]
    /\ last_get = NoGet
    /\ sequential_calls = 0
    /\ last_result = [s \in Stores |-> NoResult]
    /\ moka_expired = FALSE
    /\ startup_pc = "start"
    /\ main_cfg = NoConfig
    /\ main_addr = 0
    /\ main_tls_config = {}
    /\ captive_portal_port = 0
    /\ serve_stun_task = "none"
    /\ bound = {}
    /\ upgraded = [i \in Upgrades |-> NoUpgraded]
    /\ handshake_pc = [i \in Upgrades |-> "none"]
    /\ handshake_error = [i \in Upgrades |-> "none"]
    /\ accept_metrics = [derp_accepts |-> 0, websocket_accepts |-> 0]
    /\ create_client_sent = [i \in Upgrades |-> FALSE]
    /\ client_slot = [i \in Upgrades |-> FALSE]
    /\ tls_acceptor = [i \in TlsConns |-> "none"]
    /\ tls_pc = [i \in TlsConns |-> "none"]
    /\ tls_accepted = [i \in TlsConns |-> "none"]
    /\ tls_handshake = [i \in TlsConns |-> "none"]
    /\ tls_result = [i \in TlsConns |-> "none"]
    /\ served_http = [i \in TlsConns |-> FALSE]
    /\ relay_route = [i \in TlsConns |-> FALSE]

Next ==
    \/ \E c \in Conns, k \in Keys, sig_ok \in BOOLEAN, version \in Versions :
            AcceptHandshake(c, k, sig_ok, version)
    \/ \E c \in Conns : SendOverdue(c)
    \/ \E c \in Conns : AcceptSend(c)
    \/ ActorCreateClient
    \/ ActorCancel
    \/ ActorInsert
    \/ ActorRemoveClient
    \/ \E c \in Conns, dst \in Keys : ReadSendPacket(c, dst)
    \/ \E c \in Conns : WriteFrame(c)
    \/ \E c \in Conns : ConnFail(c)
    \/ \E c \in Conns : ConnDeregister(c)

Spec == Init /\ [][Next]_vars

\* The relay hub with clients that also send Ping frames.
PingNext ==
    \/ Next
    \/ \E c \in Conns : ReadPing(c)

PingSpec == Init /\ [][PingNext]_vars

\* The HTTP server: the supervisor with its accept loop, the connection
\* tasks, the upgrade handlers and the relay server actor as a whole.
ServerNext ==
    \/ Shutdown
    \/ Abort
    \/ Break
    \/ \E t \in Tasks : JoinNext(t)
    \/ \E t \in Tasks : ListenerAccept(t)
    \/ ListenerAcceptError
    \/ ServerTaskClose
    \/ SetShutdown
    \/ \E t \in Tasks : ConnError(t)
    \/ \E t \in Tasks : ConnPanic(t)
    \/ \E t \in Tasks : SpawnUpgradeHandler(t)
    \/ \E t \in Tasks : Upgraded(t)
    \/ \E t \in Tasks : UpgradeError(t)
    \/ \E t \in Tasks, info \in {"bad", "good"} : ClientInfoArrives(t, info)
    \/ \E t \in Tasks : HandlerAccept(t)
    \/ \E t \in Tasks : ClientConnError(t)
    \/ \E t \in Tasks : ClientIo(t)

ServerSpec == Init /\ [][ServerNext]_vars

\* The runtime runs the supervisor task whenever it can take a step, and
\* wakes an upgrade handler whose connection is gone; the handshake in
\* accept ends after 10 seconds at the latest.
Supervisor ==
    Break \/ ServerTaskClose \/ SetShutdown

FairServerSpec ==
    /\ ServerSpec
    /\ WF_vars(Supervisor)
    /\ \A t \in Tasks : WF_vars(UpgradeError(t))
    /\ \A t \in Tasks : WF_vars(HandlerAccept(t))

\* The HTTP server with the server channel, for shutdown.
ShutdownNext ==
    \/ Shutdown
    \/ Abort
    \/ Break
    \/ \E t \in Tasks : JoinNext(t)
    \/ \E t \in Tasks : ListenerAccept(t)
    \/ ListenerAcceptError
    \/ CloseRequested
    \/ \E t \in Tasks : ActorDrain(t)
    \/ ActorExit
    \/ SetShutdown
    \/ \E t \in Tasks : ConnError(t)
    \/ \E t \in Tasks : ConnPanic(t)
    \/ \E t \in Tasks : SpawnUpgradeHandler(t)
    \/ \E t \in Tasks : Upgraded(t)
    \/ \E t \in Tasks : UpgradeError(t)
    \/ \E t \in Tasks, info \in {"bad", "good"} : ClientInfoArrives(t, info)
    \/ \E t \in Tasks : AcceptCreateClient(t)
    \/ \E t \in Tasks : ActorRegister(t)
    \/ \E t \in Tasks : ClientConnError(t)
    \/ \E t \in Tasks : ClientIo(t)

ShutdownSpec == Init /\ [][ShutdownNext]_vars

\* One request through RelayService::call.
HttpNext ==
    \/ /\ req = NoReq
       /\ \E h \in HandlerTables, hs \in HeaderLists, r \in Requests :
            Request(h, hs, r)
    \/ Call

HttpSpec == Init /\ [][HttpNext]_vars

\* The relay binary: main, then one request to one of its listeners.
DerperNext ==
    \/ \E tls \in BOOLEAN : Main(tls)
    \/ /\ req = NoReq
       /\ \E l \in {"main", "captive_portal"}, r \in DerperRequests :
            DerperRequest(l, r)
    \/ Call
    \/ CaptivePortalCall

DerperSpec == Init /\ [][DerperNext]_vars

\* The signed-packet stores, one call at a time.
StoreNext ==
    \/ \E packet \in SignedPackets : SignedPacketStore_upsert(packet)
    \/ \E packet \in SignedPackets : MokaStore_upsert(packet)
    \/ \E key \in Keys : SignedPacketStore_remove(key)
    \/ \E key \in Keys : MokaStore_remove(key)
    \/ \E key \in Keys : MokaExpire(key)

StoreSpec == Init /\ [][StoreNext]_vars

\* The STUN listener: the receive loop and the per-datagram tasks, in any
\* interleaving.
StunNext ==
    \/ /\ stun_received < MaxDatagrams
       /\ \E bytes \in Packets, src_addr \in Addrs : StunRecv(bytes, src_addr)
    \/ StunRecvError
    \/ \E i \in 1 .. MaxDatagrams : StunIs(i)
    \/ \E i \in 1 .. MaxDatagrams : StunParse(i)
    \/ \E i \in 1 .. MaxDatagrams, ok \in BOOLEAN : StunSend(i, ok)

StunSpec == Init /\ [][StunNext]_vars

\* escape_hostname on a hostname, and then on its own result.
HostnameNext ==
    \/ /\ escapes = 0
       /\ \E h \in Hostnames : EscapeHostname(h)
    \/ EscapeKeyname

HostnameSpec == Init /\ [][HostnameNext]_vars

\* Calls on the stores, each step of a call interleaved with the others.
StoreCallsNext ==
    \/ \E i \in 1 .. MaxCalls :
          /\ NextCall(i)
          /\ \E s \in Stores, packet \in SignedPackets :
                UpsertLookup(i, s, packet)
    \/ \E i \in 1 .. MaxCalls : UpsertInsert(i)
    \/ \E i \in 1 .. MaxCalls :
          /\ NextCall(i)
          /\ \E s \in Stores, key \in Keys : RemoveCall(i, s, key)

StoreCallsSpec == Init /\ [][StoreCallsNext]_vars

\* The stores with get calls, one call at a time.
StoreGetNext ==
    \/ \E s \in Stores, packet \in OnePerTimestamp : UpsertCall(s, packet)
    \/ \E s \in Stores, key \in Keys : GetCall(s, key)
    \/ \E s \in Stores, key \in Keys : RemoveKey(s, key)
    \/ \E key \in Keys : MokaExpire(key)

StoreGetSpec == Init /\ [][StoreGetNext]_vars

\* One call on both stores, or an expiry in the cache.
LockstepNext ==
    \/ \E packet \in SignedPackets : SequentialUpsert(packet)
    \/ \E key \in Keys : SequentialGet(key)
    \/ \E key \in Keys : SequentialRemove(key)
    \/ \E key \in Keys : CacheExpires(key)

LockstepSpec == Init /\ [][LockstepNext]_vars

\* main from its start to ctrl_c, and the STUN task.
StartupNext ==
    \/ \E c \in Configs : LoadConfig(c)
    \/ CheckPorts
    \/ RunStun
    \/ \E ok \in BOOLEAN : ServeStunBind(ok)
    \/ \E ok \in BOOLEAN : TlsSetup(ok)
    \/ \E ok \in BOOLEAN : SpawnRelayServer(ok)
    \/ \E ok \in BOOLEAN : ServeCaptivePortal(ok)

StartupSpec == Init /\ [][StartupNext]_vars

\* The upgrade handlers of the upgraded connections, and the actor.
HandshakeNext ==
    \/ \E i \in Upgrades :
          /\ handshake_pc[i] = "none"
          /\ \E u \in UpgradedConns : UpgradeOn(i, u)
    \/ \E i \in Upgrades : RelayConnectionHandler(i)
    \/ \E i \in Upgrades :
          \E info \in {"good", "client_info", "version"} :
              RecvClientKey(i, info)
    \/ \E i \in Upgrades, ok \in BOOLEAN : SendCreateClient(i, ok)
    \/ \E i \in Upgrades : RegisterSlot(i)

HandshakeSpec == Init /\ [][HandshakeNext]_vars

\* The tasks of the connections to a server with a TLS configuration.
TlsNext ==
    \/ \E i \in TlsConns, acceptor \in TlsAcceptors :
          TlsServeConnection(i, acceptor)
    \/ \E i \in TlsConns, res \in AcmeAccepts : AcmeAccept(i, res)
    \/ \E i \in TlsConns, ok \in BOOLEAN : IntoStream(i, ok)
    \/ \E i \in TlsConns, ok \in BOOLEAN : ManualAccept(i, ok)
    \/ \E i \in TlsConns, relay \in BOOLEAN : ServeTlsRequest(i, relay)
    \/ \E i \in TlsConns, ok \in BOOLEAN : ServeTlsReturns(i, ok)

TlsSpec == Init /\ [][TlsNext]_vars

\* The dispatcher is one task; its steps are never blocked by a client.
Actor ==
    ActorCreateClient \/ ActorCancel \/ ActorInsert \/ ActorRemoveClient

\* The runtime schedules every task that can run: the dispatcher, each
\* write loop, and each task waiting to send on the server channel.
FairSpec ==
    /\ Spec
    /\ WF_vars(Actor)
    /\ \A c \in Conns : WF_vars(WriteFrame(c))
    /\ \A c \in Conns : WF_vars(ConnDeregister(c))
    /\ \A c \in Conns : WF_vars(AcceptSend(c))

\* The relay hub with pings, scheduled as in FairSpec.
FairPingSpec ==
    /\ PingSpec
    /\ WF_vars(Actor)
    /\ \A c \in Conns : WF_vars(WriteFrame(c))
    /\ \A c \in Conns : WF_vars(ConnDeregister(c))
    /\ \A c \in Conns : WF_vars(AcceptSend(c))

(***************************************************************************)
(* Properties.                                                             *)
(***************************************************************************)
\* The slot the dispatcher created for a serving connection.
SlotOf(c) ==
    [node_id |-> conn[c].node_id, conn |-> c, epoch |-> conn[c].epoch]

\* C1: the registry holds at most one slot per public key, and the step
\* that registers a connection for a key that already has a slot leaves
\* the new slot as the only one for the key, the earlier one evicted and
\* its connection cancelled.
C1_OneSlotPerKey ==
    /\ [](\A k \in Keys : Cardinality(SlotsFor(k)) <= 1)
    /\ [][actor_pc = "insert" /\ actor_pc' = "recv" =>
            /\ \A s \in clients' :
                    s.node_id = actor_msg.node_id => s.conn = actor_msg.conn
            /\ \E s \in clients' : s.conn = actor_msg.conn
            /\ \A s \in SlotsFor(actor_msg.node_id) :
                    s \notin clients' /\ cancelled'[s.conn]]_vars

\* A replacement has happened: the newer connection holds the key's slot
\* and the earlier one, cancelled, has not yet deregistered.
C1_Witness ==
    \E o, n \in Conns :
        /\ o # n
        /\ conn[o].st = "serving" /\ conn[n].st = "serving"
        /\ conn[o].node_id = conn[n].node_id
        /\ cancelled[o] /\ ~cancelled[n]
        /\ clients = {SlotOf(n)}

Range(s) == {s[i] : i \in DOMAIN s}

\* o and n serve the same key and n was registered after o (it replaced o).
Replaced(o, n) ==
    /\ o # n
    /\ conn[o].st = "serving" /\ conn[n].st = "serving"
    /\ conn[o].node_id = conn[n].node_id
    /\ conn[n].epoch > conn[o].epoch

\* o is registered and a later handshake for its key has succeeded:
\* accept has returned Ok for n (its CreateClient is sent), whether or not
\* the dispatcher has handled it yet.
LaterHandshake(o, n) ==
    /\ o # n
    /\ conn[o].st = "serving"
    /\ conn[o].node_id = conn[n].node_id
    /\ \/ conn[n].st = "accepted"
       \/ conn[n].st = "serving" /\ conn[n].epoch > conn[o].epoch

\* The places (connection, position in its mailbox, or 0 for its received
\* frames) that hold the packet with payload n.
Copies(n) ==
    {p \in Conns \X (0 .. MaxFrames + 1) :
        \/ p[2] = 0 /\ \E f \in Range(received[p[1]]) : f.seq = n
        \/ p[2] \in DOMAIN mailbox[p[1]] /\ mailbox[p[1]][p[2]].seq = n}

C3_NoCrossTenantLeak ==
    \A c \in Conns :
        \A f \in Range(mailbox[c]) \cup Range(received[c]) :
            f.type = "RecvPacket" => f.dst = conn[c].client_key

\* Two tenants are connected and one has received a packet from the other.
C3_Witness ==
    \E c, d \in Conns :
        /\ Running(c) /\ Running(d)
        /\ conn[c].client_key # conn[d].client_key
        /\ \E f \in Range(received[c]) :
                f.type = "RecvPacket" /\ f.src = conn[d].client_key

\* The packets among the frames of s that come from source k.
From(s, k) ==
    SelectSeq(s, LAMBDA f : f.type = "RecvPacket" /\ f.src = k)

\* Payloads are numbered in the order the clients emit them, so a
\* sequence of packets is a subsequence of the emitted ones, without
\* reordering or duplication, when its payloads strictly increase.
Increasing(s) ==
    \A i, j \in DOMAIN s : i < j => s[i].seq < s[j].seq

\* C4: for every connection and every source, the packets received
\* followed by the packets queued are emitted packets in emission order.
C4_InOrder ==
    \A c \in Conns, k \in Keys :
        /\ Increasing(From(received[c] \o mailbox[c], k))
        /\ \A f \in Range(From(received[c] \o mailbox[c], k)) :
                f.seq \in 1 .. emitted

\* A connection received two packets of one source while a packet of
\* another source was emitted in between.
C4_Witness ==
    \E c \in Conns, k \in Keys :
        /\ Len(From(received[c], k)) = 2
        /\ From(received[c], k)[2].seq = From(received[c], k)[1].seq + 2

\* The frames a connection can be handed.
Frames ==
    {RecvPacket(src, dst, n) : src \in Keys, dst \in Keys, n \in 1 .. MaxFrames}

\* C5 as stated: a packet enqueued for a registered connection is
\* eventually received by its client.
C5_AsStated ==
    \A b \in Conns : \A f \in Frames :
        (Running(b) /\ f \in Range(mailbox[b])) ~> (f \in Range(received[b]))

\* C5 (amended): when connection a sends SendPacket{dst, p} while the slot
\* of dst is held by a serving connection b whose mailbox is not full,
\* RecvPacket{src = a's key, p} is enqueued for b, in either direction;
\* and a packet enqueued for b is eventually received by b's client unless
\* b's connection is cancelled (it failed or was replaced) first.
C5_EventuallyDelivered ==
    /\ [][\A a, b \in Conns, dst \in Keys :
            /\ ReadSendPacket(a, dst)
            /\ SlotOf(b) \in clients /\ conn[b].node_id = dst
            /\ conn[b].st = "serving"
            /\ Len(mailbox[b]) < PER_CLIENT_SEND_QUEUE_DEPTH
            => mailbox'[b] = Append(mailbox[b],
                    RecvPacket(conn[a].client_key, dst, emitted + 1))
          ]_vars
    /\ \A b \in Conns : \A f \in Frames :
        (Running(b) /\ f \in Range(mailbox[b]))
            ~> (f \in Range(received[b]) \/ cancelled[b])

\* Two connections of different keys are running and each has received a
\* packet from the other.
C5_Witness ==
    \E a, b \in Conns :
        /\ Running(a) /\ Running(b)
        /\ conn[a].client_key # conn[b].client_key
        /\ \E f \in Range(received[b]) :
                f.type = "RecvPacket" /\ f.src = conn[a].client_key
        /\ \E f \in Range(received[a]) :
                f.type = "RecvPacket" /\ f.src = conn[b].client_key

\* C6: a handshake whose signature does not verify, or whose version is
\* not PROTOCOL_VERSION, closes the connection and nothing else: no
\* CreateClient is sent, the registry and every other connection are
\* unchanged; a rejected connection stays closed and is never known to
\* the dispatcher; and the listener still accepts the next connection.
C6_BadHandshakeRejected ==
    /\ [][\A c \in Conns, k \in Keys, sig_ok \in BOOLEAN, version \in Versions :
            /\ AcceptHandshake(c, k, sig_ok, version)
            /\ (~sig_ok \/ version # PROTOCOL_VERSION)
            => /\ conn'[c].st = "rejected"
               /\ server_channel' = server_channel
               /\ clients' = clients
               /\ \A d \in Conns \ {c} : conn'[d] = conn[d]
               /\ mailbox' = mailbox /\ cancelled' = cancelled
          ]_vars
    /\ [][\A c \in Conns :
            conn[c].st = "rejected" => conn'[c] = conn[c]]_vars
    /\ [](\A c \in Conns :
            conn[c].st = "rejected" =>
                /\ \A s \in clients : s.conn # c
                /\ \A i \in DOMAIN server_channel : server_channel[i].conn # c
                /\ actor_msg.conn # c
                /\ mailbox[c] = <<>> /\ received[c] = <<>>
                /\ \A d \in Conns :
                        d = c + 1 /\ conn[d].st = "free" =>
                            \A k \in Keys :
                                ENABLED AcceptHandshake(d, k, TRUE,
                                                        PROTOCOL_VERSION))

\* A handshake was rejected and a connection accepted after it is served.
C6_Witness ==
    \E c, d \in Conns :
        /\ c < d
        /\ conn[c].st = "rejected"
        /\ Running(d)
        /\ clients = {SlotOf(d)}

\* C7: a SendPacket routed to a slot whose mailbox is full is dropped:
\* no mailbox changes, the dropped-packets counter goes up by one, and
\* the sender keeps running; a running read loop can always take its next
\* SendPacket, whatever the state of the destination's mailbox.
C7_FullMailboxDrops ==
    /\ [][\A c \in Conns, dst \in Keys :
            /\ ReadSendPacket(c, dst)
            /\ \E s \in SlotsFor(dst) :
                    /\ conn[s.conn].st = "serving"
                    /\ Len(mailbox[s.conn]) >= PER_CLIENT_SEND_QUEUE_DEPTH
            => /\ mailbox' = mailbox
               /\ packets_dropped_full_mailbox' =
                        packets_dropped_full_mailbox + 1
               /\ conn'[c] = conn[c] /\ cancelled'[c] = cancelled[c]
          ]_vars
    /\ [](\A c \in Conns, dst \in Keys :
            Running(c) /\ emitted < MaxFrames => ENABLED ReadSendPacket(c, dst))

\* A packet was dropped at a full mailbox whose frames all come from a
\* sender that is still running.
C7_Witness ==
    \E c, d \in Conns :
        /\ Running(c) /\ Running(d)
        /\ packets_dropped_full_mailbox >= 1
        /\ Len(mailbox[d]) = PER_CLIENT_SEND_QUEUE_DEPTH
        /\ \A f \in Range(mailbox[d]) : f.src = conn[c].node_id

\* C8: no mailbox ever holds more frames than PER_CLIENT_SEND_QUEUE_DEPTH.
C8_MailboxBounded ==
    \A c \in Conns : Len(mailbox[c]) <= PER_CLIENT_SEND_QUEUE_DEPTH

\* A mailbox is filled to the queue depth and every frame has been emitted.
C8_Witness ==
    \E c \in Conns :
        /\ Len(mailbox[c]) = PER_CLIENT_SEND_QUEUE_DEPTH
        /\ emitted = MaxFrames

\* C9: handling RemoveClient(node_id, epoch) removes exactly the slot with
\* that key and that epoch, so the message of a replaced connection leaves
\* the newer slot in place; a slot leaves the registry only when its
\* connection is cancelled, and a running connection keeps its slot.
C9_StaleRemoveIgnored ==
    /\ [][actor_pc = "recv" /\ server_channel # <<>>
            /\ Head(server_channel).type = "RemoveClient"
            /\ server_channel' = Tail(server_channel)
            /\ actor_pc' = "recv"
            => /\ \A s \in clients \ clients' :
                    /\ s.node_id = Head(server_channel).node_id
                    /\ s.epoch = Head(server_channel).epoch
               /\ \A s \in clients :
                    s.epoch # Head(server_channel).epoch => s \in clients'
          ]_vars
    /\ [][\A s \in clients \ clients' : cancelled'[s.conn]]_vars
    /\ [](\A c \in Conns : Running(c) => SlotOf(c) \in clients)

\* The RemoveClient of a replaced connection has been handled and the
\* newer connection still holds the slot of the key.
C9_Witness ==
    \E o, n \in Conns :
        /\ conn[o].st = "closed" /\ Running(n)
        /\ conn[o].node_id = conn[n].node_id
        /\ conn[o].epoch < conn[n].epoch
        /\ server_channel = <<>> /\ actor_pc = "recv"
        /\ clients = {SlotOf(n)}

\* C10: handling CreateClient for a key that has a slot enqueues
\* PeerGone(K) to the mailbox of the old slot's connection (lost only if
\* that mailbox is full) and changes nothing else; the next step cancels
\* the old connection, the registry still unchanged; a slot is inserted
\* over an existing one only when the existing one's connection is already
\* cancelled; and the old connection is eventually cancelled.
C10_ReplacementProtocol ==
    /\ [][actor_pc = "recv" /\ actor_pc' = "cancel" =>
            /\ \A s \in SlotsFor(actor_msg'.node_id) :
                    conn[s.conn].st = "serving" =>
                        mailbox'[s.conn] =
                            IF Len(mailbox[s.conn]) < PER_CLIENT_SEND_QUEUE_DEPTH
                            THEN Append(mailbox[s.conn],
                                        PeerGone(actor_msg'.node_id))
                            ELSE mailbox[s.conn]
            /\ SlotsFor(actor_msg'.node_id) # {}
            /\ cancelled' = cancelled /\ clients' = clients
          ]_vars
    /\ [][actor_pc = "cancel" /\ actor_pc' = "insert" =>
            /\ \A s \in SlotsFor(actor_msg.node_id) : cancelled'[s.conn]
            /\ clients' = clients /\ mailbox' = mailbox
          ]_vars
    /\ [][\A s \in clients' \ clients :
            \A o \in SlotsFor(s.node_id) : cancelled[o.conn]]_vars
    /\ \A o, n \in Conns :
        (/\ o # n
         /\ conn[o].st = "serving" /\ SlotOf(o) \in clients
         /\ conn[n].st = "accepted" /\ conn[n].node_id = conn[o].node_id)
            ~> cancelled[o]

\* The old connection was told PeerGone and cancelled, and the newer one
\* holds the slot.
C10_Witness ==
    \E o, n \in Conns :
        /\ Replaced(o, n)
        /\ cancelled[o]
        /\ PeerGone(conn[o].node_id) \in Range(mailbox[o])
        /\ clients = {SlotOf(n)}
        /\ actor_pc = "recv"

C12_CloseShutsClients ==
    /\ [](server_task = "closed" =>
            \A t \in Tasks : client[t] # "registered")
    /\ [][\A t \in Tasks :
            server_task = "closed" /\ ClientIo(t) => io_result'[t] = "err"
         ]_vars

\* The actor was closed while a client was registered, and that client's
\* next operation failed after one that had succeeded on another client.
C12_Witness ==
    /\ server_task = "closed"
    /\ \E t, u \in Tasks :
        /\ t # u
        /\ client[t] = "shutdown" /\ io_result[t] = "err"
        /\ client[u] = "shutdown" /\ io_result[u] = "ok"

\* A task of connection t is alive: its connection task or its upgrade
\* handler has not finished.
Alive(t) ==
    set[t] = "running" \/ handler[t] \in {"upgrade", "accept"}

\* C13 as stated: once the token is cancelled no connection task is
\* spawned, and when the shutdown it starts has run to its end every
\* connection's tasks, the upgrade handler performing the relay handshake
\* included, have been stopped.
C13_AsStated ==
    /\ [][cancel_server_loop =>
            \A t \in Tasks : set[t] = "unspawned" => set'[t] = "unspawned"
         ]_vars
    /\ [](http_server_task = "completed" => \A t \in Tasks : ~Alive(t))

C15_AsStated ==
    http_server_task = "aborted" =>
        \A t \in Tasks : set[t] # "running" /\ handler[t] # "accept"

Answered == req # NoReq /\ resp # NoResp

\* The request is a GET on one of the two relay paths.
RelayGet ==
    req.method = "GET" /\ req.path \in {RELAY_PATH, LEGACY_RELAY_PATH}

\* The same request on the other relay path.
Alias(r) ==
    [r EXCEPT !.path = IF r.path = RELAY_PATH
                       THEN LEGACY_RELAY_PATH ELSE RELAY_PATH]

\* C17: a GET on /relay or /derp is answered by the upgrade handler (101
\* or 400, the same on both paths), also when a custom handler is
\* registered for it; any other request is answered by the handler
\* registered for exactly its (method, path), else with 404 "Not Found";
\* a request that is not a GET is never upgraded.
C17_RoutingOrder ==
    Answered =>
        /\ RelayGet =>
            /\ resp.by = None
            /\ resp.status \in {101, 400}
            /\ resp = call(handlers, headers, Alias(req)).resp
        /\ (~RelayGet /\ <<req.method, req.path>> \in handlers) =>
            /\ resp.by = <<req.method, req.path>>
            /\ upgrade_tasks = 0
        /\ (~RelayGet /\ <<req.method, req.path>> \notin handlers) =>
            /\ resp.status = 404 /\ resp.body = "Not Found"
            /\ resp.by = None
            /\ upgrade_tasks = 0
        /\ req.method # "GET" => resp.status # 101 /\ upgrade_tasks = 0

\* A GET on a relay path was upgraded although a custom handler is
\* registered for it.
C17_Witness ==
    /\ Answered /\ RelayGet
    /\ <<req.method, req.path>> \in handlers
    /\ resp.status = 101

\* C18: a GET on a relay path with Upgrade: derp, or with Upgrade:
\* websocket, a Sec-WebSocket-Key and Sec-WebSocket-Version 13, is
\* answered 101 with the Upgrade header of the request and starts exactly
\* one upgrade-handler task; for websocket the response carries
\* Connection: upgrade and the accept value derived from the key.
C18_SwitchingProtocols ==
    (/\ Answered /\ RelayGet
     /\ req.upgrade \in {"derp", "websocket"}
     /\ req.upgrade = "websocket" =>
            /\ req.ws_key # None
            /\ req.ws_version = SUPPORTED_WEBSOCKET_VERSION)
    => /\ resp.status = 101
       /\ resp.upgrade = req.upgrade
       /\ upgrade_tasks = 1
       /\ req.upgrade = "websocket" =>
            /\ resp.connection = "upgrade"
            /\ resp.ws_accept = derive_accept_key(req.ws_key)
       /\ req.upgrade = "derp" =>
            /\ resp.connection = None /\ resp.ws_accept = None

\* A websocket upgrade on the legacy path was answered 101.
C18_Witness ==
    /\ Answered
    /\ req.path = LEGACY_RELAY_PATH /\ req.upgrade = "websocket"
    /\ resp.status = 101 /\ resp.ws_accept = derive_accept_key("key2")

\* The request is a websocket upgrade on a relay path.
WebSocketUpgrade ==
    Answered /\ RelayGet /\ req.upgrade = "websocket"

\* C19 as stated: a websocket upgrade without key or without version is
\* answered 400; one whose version is present and not 13 is answered 400
\* with Sec-WebSocket-Version: 13; no upgrade task, no client.
C19_AsStated ==
    WebSocketUpgrade =>
        /\ (req.ws_key = None \/ req.ws_version = None) =>
            resp.status = 400 /\ upgrade_tasks = 0 /\ clients = {}
        /\ req.ws_version \notin {None, SUPPORTED_WEBSOCKET_VERSION} =>
            /\ resp.status = 400
            /\ resp.ws_version = SUPPORTED_WEBSOCKET_VERSION
            /\ upgrade_tasks = 0 /\ clients = {}

\* C19 (amended): a websocket upgrade without key or without version is
\* answered 400; one with a key whose version is present and not 13 is
\* answered 400 with Sec-WebSocket-Version: 13 (without a key the 400
\* carries no version header); no upgrade task, no client.
C19_WebSocketHeaders ==
    WebSocketUpgrade =>
        /\ (req.ws_key = None \/ req.ws_version = None) =>
            /\ resp.status = 400 /\ resp.ws_version = None
            /\ upgrade_tasks = 0 /\ clients = {}
        /\ (/\ req.ws_key # None
            /\ req.ws_version \notin {None, SUPPORTED_WEBSOCKET_VERSION}) =>
            /\ resp.status = 400
            /\ resp.ws_version = SUPPORTED_WEBSOCKET_VERSION
            /\ upgrade_tasks = 0 /\ clients = {}

\* A websocket upgrade with a key and version 12 was refused with the
\* supported version advertised.
C19_Witness ==
    /\ WebSocketUpgrade
    /\ req.ws_key # None /\ req.ws_version = "12"
    /\ resp.status = 400
    /\ resp.ws_version = SUPPORTED_WEBSOCKET_VERSION

\* C20: a GET on a relay path without Upgrade header, or with one that
\* names no supported protocol, is answered 400 with an empty body; no
\* upgrade task is spawned and no client is registered.
C20_NoUpgradeHeader ==
    (Answered /\ RelayGet /\ req.upgrade \notin {"derp", "websocket"}) =>
        /\ resp = Response(headers, 400, None, None, None, None, "", None)
        /\ upgrade_tasks = 0
        /\ clients = {} /\ server_channel = <<>>

\* A GET on a relay path with an unsupported Upgrade header was refused.
C20_Witness ==
    /\ Answered /\ RelayGet
    /\ req.upgrade = "h2c"
    /\ resp.status = 400 /\ resp.body = ""

\* C21 as stated: on every connection whose handshake accept has passed,
\* the first frame the server sent to the client is a ServerKey frame.
C21_AsStated ==
    \A c \in Conns :
        conn[c].st \in {"sending", "overdue", "accepted", "serving"} =>
            /\ received[c] # <<>>
            /\ received[c][1].type = "ServerKey"

C23_AsStated ==
    /\ [][\A c \in Conns :
            conn[c].st = "overdue" => conn'[c].st # "accepted"]_vars
    /\ \A c \in Conns :
        (conn[c].st = "overdue") ~> (conn[c].st \in {"rejected", "closed"})
    /\ [](\A c \in Conns :
            conn[c].st = "overdue" => \A s \in clients : s.conn # c)

\* C24: every response of the relay service (101, 400, a registered
\* handler's response, 404) carries every header configured on the server
\* builder; the binary configures exactly the Strict-Transport-Security
\* and Content-Security-Policy headers when TLS is configured, and no
\* header when it is not.
C24_ConfiguredHeaders ==
    /\ (Answered /\ listener = "main") =>
            \A i \in DOMAIN headers :
                \E j \in DOMAIN resp.headers : resp.headers[j] = headers[i]
    /\ tls_config = "some" =>
            {headers[i][1] : i \in DOMAIN headers} =
                {"Strict-Transport-Security", "Content-Security-Policy"}
    /\ tls_config = "none" => headers = <<>>

\* With TLS configured, a registered handler answered with both headers
\* and its own.
C24_Witness ==
    /\ Answered /\ listener = "main" /\ tls_config = "some"
    /\ req.path = "/derp/probe" /\ resp.status = 200
    /\ Len(resp.headers) = 3

\* The request was answered by serve_no_content_handler.
ServedNoContent ==
    /\ Answered
    /\ req.method = "GET" /\ req.path = "/generate_204"
    /\ listener = "captive_portal" \/ tls_config = "none"

\* C25: the /generate_204 handler answers 204 with an empty body; it adds
\* X-Tailscale-Response: "response <token>" exactly when the request has
\* an X-Tailscale-Challenge header whose value is not empty, shorter than
\* the limit and made of characters in [A-Za-z0-9._-]; otherwise it adds
\* no header.
C25_NoContentChallenge ==
    ServedNoContent =>
        LET base == IF listener = "main" THEN headers ELSE <<>>
            valid(token) ==
                /\ Len(token) > 0
                /\ Len(token) < MaxChallenge
                /\ \A i \in DOMAIN token :
                    token[i] \in AsciiUppercase \cup AsciiLowercase
                                 \cup AsciiDigit \cup {".", "_", "-"}
        IN  /\ resp.status = 204
            /\ resp.body = ""
            /\ \A token \in req.challenge :
                 valid(token) =>
                    resp.headers = Append(base,
                        <<"X-Tailscale-Response",
                          <<"r", "e", "s", "p", "o", "n", "s", "e", " ">>
                            \o token>>)
            /\ (\A token \in req.challenge : ~valid(token)) =>
                    resp.headers = base

\* The captive-portal listener echoed the challenge "Z_".
C25_Witness ==
    /\ ServedNoContent /\ listener = "captive_portal"
    /\ req.challenge = {<<"Z", "_">>}
    /\ resp.headers =
        << <<"X-Tailscale-Response",
             <<"r", "e", "s", "p", "o", "n", "s", "e", " ", "Z", "_">> >> >>

\* C26: GET /generate_204 is registered on the relay server exactly when
\* TLS is not configured, and the captive-portal listener runs exactly
\* when it is; with TLS the relay server answers /generate_204 with 404
\* and the captive-portal listener serves it, answering 404 "Not Found"
\* to every other method and path.
C26_CaptivePortal ==
    /\ tls_config # "unset" =>
        /\ <<"GET", "/generate_204">> \in handlers <=> tls_config = "none"
        /\ captive_portal_task <=> tls_config = "some"
    /\ listener = "captive_portal" => tls_config = "some"
    /\ (Answered /\ listener = "main" /\ req.path = "/generate_204") =>
        IF tls_config = "none" /\ req.method = "GET"
        THEN resp.status = 204
        ELSE resp.status = 404
    /\ (Answered /\ listener = "captive_portal") =>
        IF req.method = "GET" /\ req.path = "/generate_204"
        THEN resp.status = 204
        ELSE /\ resp.status = 404
             /\ resp.body = "Not Found"
             /\ resp.headers = <<>>

\* With TLS configured, the relay server refused GET /generate_204.
C26_Witness ==
    /\ Answered /\ listener = "main" /\ tls_config = "some"
    /\ req.method = "GET" /\ req.path = "/generate_204"
    /\ resp.status = 404 /\ captive_portal_task

\* What upsert(packet) promises, with `before` the store before the call,
\* `after` the store after it and `ret` whether it returned true.
UpsertContract(before, after, packet, ret) ==
    LET key == from_signed_packet(packet)
        refused == /\ before[key] # {}
                   /\ \A existing \in before[key] :
                        more_recent_than(existing, packet)
    IN  /\ ret = ~refused
        /\ refused => after = before
        /\ ~refused => /\ after[key] = {packet}
                       /\ \A k \in Keys \ {key} : after[k] = before[k]

\* C27: for both packet stores, upsert(p) returns false and leaves the
\* store unchanged exactly when the store holds for p's key a packet more
\* recent than p; otherwise (no packet for the key, or a stored packet that
\* is not more recent, equally recent included) it stores p under its key
\* and returns true.
C27_Upsert ==
    [][\A packet \in SignedPackets :
        /\ SignedPacketStore_upsert(packet) =>
              UpsertContract(signed_packet_store, signed_packet_store',
                             packet, last_upsert'.ret = {TRUE})
        /\ MokaStore_upsert(packet) =>
              UpsertContract(moka_store, moka_store',
                             packet, last_upsert'.ret = {TRUE})]_vars

\* An upsert returned false: the store holds a more recent packet for the
\* key, and not the packet of the call.
C27_Witness ==
    /\ last_upsert.store = "signed_packets"
    /\ last_upsert.ret = {FALSE}
    /\ \E packet \in last_upsert.packet :
          /\ signed_packet_store[packet.key] # {packet}
          /\ \E existing \in signed_packet_store[packet.key] :
                more_recent_than(existing, packet)

\* C28: the STUN listener sends a response only for datagrams that are
\* valid STUN binding requests; each such datagram gets at most one
\* response, sent to the source address of that datagram and carrying its
\* transaction id, whatever the interleaving of the per-datagram tasks;
\* and the receive loop is never stopped, neither by a non-STUN packet, an
\* invalid binding request, a receive error nor a send error.
C28_StunResponses ==
    /\ \A n \in 1 .. Len(stun_sent) :
          LET sent == stun_sent[n]
              datagram == stun_datagram[sent.task]
          IN  /\ datagram.pkt.cookie = MAGIC_COOKIE
              /\ datagram.pkt.type = "binding_request"
              /\ sent.to = datagram.src_addr
              /\ sent.res.txid = datagram.pkt.txid
              /\ \A m \in 1 .. Len(stun_sent) :
                    stun_sent[m].task = sent.task => m = n
    /\ stun_listener = "recv_from"
    /\ \A i \in 1 .. MaxDatagrams :
          stun_task[i].pc \in {"ignored", "invalid", "send_failed"} =>
              \A n \in 1 .. Len(stun_sent) : stun_sent[n].task # i

\* recv_from has failed once, and two binding requests from different
\* addresses with different transaction ids were answered, the later one
\* first.
C28_Witness ==
    /\ stun_recv_errors = 1
    /\ Len(stun_sent) = 2
    /\ stun_sent[1].task = 2
    /\ stun_sent[2].task = 1
    /\ stun_datagram[1].src_addr # stun_datagram[2].src_addr
    /\ stun_datagram[1].pkt.txid # stun_datagram[2].pkt.txid

\* The Pong frames of the model.
Pongs == {Pong(nonce) : nonce \in 1 .. MaxFrames}

\* The frames connection c holds: enqueued for it or received by its client.
Holds(c) == Range(mailbox[c]) \cup Range(received[c])

\* C29 as stated: a registered client that sends Ping(nonce) while its
\* mailbox is not full eventually receives Pong(nonce) on its connection.
C29_AsStated ==
    \A c \in Conns : \A pong \in Pongs :
        (Running(c) /\ pong \in Range(mailbox[c])) ~>
            (pong \in Range(received[c]))

\* C29 (amended): when a registered client sends Ping(nonce) while its
\* mailbox is not full, Pong(nonce) is enqueued to its own mailbox and to
\* no other; a pong is never held by or delivered to another connection
\* than the one whose client sent the ping; and the enqueued pong is
\* eventually received by the client unless its connection is cancelled
\* (it failed or was replaced) first.
C29_PingPong ==
    /\ [][\A c \in Conns :
            ReadPing(c) /\ Len(mailbox[c]) < PER_CLIENT_SEND_QUEUE_DEPTH
            => mailbox' = [mailbox EXCEPT ![c] =
                              Append(@, Pong(emitted + 1))]
          ]_vars
    /\ [][\A c, d \in Conns :
            ReadPing(c) /\ d # c => Pong(emitted + 1) \notin Holds(d)'
          ]_vars
    /\ [][\A d \in Conns : \A pong \in Pongs :
            pong \in Holds(d)' /\ pong \notin Holds(d) => ReadPing(d)
          ]_vars
    /\ \A c \in Conns : \A pong \in Pongs :
        (Running(c) /\ pong \in Range(mailbox[c])) ~>
            (pong \in Range(received[c]) \/ cancelled[c])

\* Two clients of the same key: the one that pinged has received its pong
\* and the other holds no pong.
C29_Witness ==
    \E c, d \in Conns :
        /\ c # d
        /\ conn[c].node_id = conn[d].node_id
        /\ Running(c)
        /\ conn[d].st = "serving"
        /\ \E pong \in Pongs : pong \in Range(received[c])
        /\ Holds(d) \cap Pongs = {}

\* The characters of [a-zA-Z0-9.-].
SafeHostnameChar(c) ==
    c \in AsciiLowercase \cup AsciiUppercase \cup AsciiDigit \cup {".", "-"}

\* C30: escape_hostname returns its input with exactly the characters
\* outside [a-zA-Z0-9.-] removed and all other characters kept in their
\* order; applying it twice gives the same result as applying it once.
C30_EscapeHostname ==
    /\ escapes >= 1 => keyname = SelectSeq(hostname, SafeHostnameChar)
    /\ escapes >= 1 => escape_hostname(keyname) = keyname
    /\ escape_hostname(<<"a", ".", "b", "_", "c", "-", "d", "%", "e">>)
          = <<"a", ".", "b", "c", "-", "d", "e">>

\* escape_hostname was applied twice to a hostname with two unsafe
\* characters among safe ones.
C30_Witness ==
    /\ escapes = 2
    /\ hostname = <<"a", "_", ".", "%">>
    /\ keyname = <<"a", ".">>

\* The supervisor's own steps: not an abort of the supervisor task and not
\* its panic on a panicked connection task.
Graceful == http_server_task' \notin {"aborted", "panicked"}

\* C31: graceful shutdown goes in this order: the accept loop stops
\* accepting; then the relay server actor is closed, which cancels every
\* slot; the actor drains the messages left in its channel before it
\* exits; then the supervisor shuts the set of connection tasks down and
\* waits for them; no connection task is aborted before the relay server
\* actor has been closed.
C31_GracefulShutdown ==
    /\ [][\A t \in Tasks :
            set[t] = "unspawned" /\ set'[t] # "unspawned"
            => ~cancel_server_loop /\ http_server_task = "select"]_vars
    /\ [][server_task = "running" /\ server_task' = "draining"
            => /\ http_server_task = "close"
               /\ cancel_server_loop
               /\ \A t \in Tasks : client'[t] # "registered"
               /\ set' = set]_vars
    /\ [][server_task # "closed" /\ server_task' = "closed"
            => /\ server_task = "draining"
               /\ \A t \in Tasks : client[t] \notin {"pending", "registered"}
               /\ set' = set]_vars
    /\ [][\A t \in Tasks :
            Graceful /\ set[t] # "aborted" /\ set'[t] = "aborted"
            => /\ server_task = "closed"
               /\ http_server_task = "shutdown"
               /\ http_server_task' = "completed"]_vars
    /\ [](http_server_task = "completed" =>
            /\ server_task = "closed"
            /\ \A t \in Tasks : set[t] # "running"
            /\ \A t \in Tasks : client[t] \notin {"pending", "registered"})

\* Shutdown is under way: the loop has stopped, the actor is draining a
\* CreateClient left in its channel, and a connection task is still
\* running.
C31_Witness ==
    /\ http_server_task = "close"
    /\ server_task = "draining"
    /\ \E t \in Tasks : client[t] = "pending"
    /\ \E u \in Tasks : set[u] = "running"

\* C32: once server shutdown has completed no new client slot is ever
\* registered: a handshake still in flight in a detached upgrade handler
\* ends with an error (the server channel is closed) and creates no
\* client, and no CreateClient is processed after the actor has exited.
C32_NoClientAfterShutdown ==
    /\ [](http_server_task = "completed" =>
            /\ server_task = "closed"
            /\ \A t \in Tasks : client[t] \notin {"pending", "registered"})
    /\ [][http_server_task = "completed" =>
            /\ http_server_task' = "completed"
            /\ server_task' = "closed"]_vars
    /\ [][\A t \in Tasks :
            /\ http_server_task = "completed"
            /\ handler[t] = "accept" /\ handler'[t] # "accept"
            => /\ handler'[t] = "failed"
               /\ client'[t] = "none"]_vars
    /\ [][\A t \in Tasks :
            /\ server_task \in {"closed", "aborted"}
            /\ client'[t] \in {"pending", "registered"}
            => client'[t] = client[t]]_vars

\* After shutdown completed, the handshake of a client whose ClientInfo
\* was acceptable has failed and no client exists for it, while another
\* client, registered before, was shut down.
C32_Witness ==
    /\ http_server_task = "completed"
    /\ \E t, u \in Tasks :
          /\ handler[t] = "failed" /\ client_info[t] = "good"
          /\ client[t] = "none"
          /\ client[u] = "shutdown"

\* Every call that was started has returned.
AllReturned == \A i \in 1 .. MaxCalls : store_call[i].pc \in {"idle", "returned"}

\* The upsert calls made on store s for key k.
Upserts(s, k) ==
    {i \in 1 .. MaxCalls :
        /\ store_call[i].op = "upsert"
        /\ store_call[i].store = s /\ store_call[i].key = k}

\* remove was called on store s for key k.
Removed(s, k) ==
    \E i \in 1 .. MaxCalls :
        /\ store_call[i].op = "remove"
        /\ store_call[i].store = s /\ store_call[i].key = k

\* C33 as stated: for concurrent upsert calls on the same key, in either
\* store, a more recent packet is never overwritten by an older one: after
\* all calls have returned the packet stored for the key is the most
\* recent of the packets offered, whatever the interleaving of the calls'
\* lookup and insert steps.
C33_AsStated ==
    \A s \in Stores : \A k \in Keys :
        AllReturned /\ ~Removed(s, k) =>
            \A i \in Upserts(s, k) :
                \E stored \in StoreMap(s)[k] :
                    \A offered \in store_call[i].packet :
                        ~more_recent_than(offered, stored)

\* The keys store s holds.
StoredKeys(s) == {k \in Keys : StoreMap(s)[k] # {}}

\* Call i on the SignedPacketStore returns ret in this step.
Returns(i, op, ret) ==
    /\ store_call[i].pc # "returned"
    /\ store_call'[i].pc = "returned"
    /\ store_call'[i].op = op
    /\ store_call'[i].store = "signed_packets"
    /\ store_call'[i].ret = {ret}

\* This step increments each of the counters by one and no other counter.
Increments(counters) ==
    \A c \in DOMAIN NoMetrics :
        store_metrics'["signed_packets"][c] =
            store_metrics["signed_packets"][c]
              + (IF c \in counters THEN 1 ELSE 0)

\* C34 as stated: for SignedPacketStore, after any sequence or
\* interleaving of completed upsert and remove calls the number of keys in
\* the store equals store_packets_inserted minus store_packets_removed;
\* an upsert that returns true increments exactly one of
\* store_packets_inserted and store_packets_updated, an upsert that returns
\* false increments neither, and remove increments store_packets_removed
\* exactly when it returns true.
C34_AsStated ==
    /\ [](AllReturned =>
            Cardinality(StoredKeys("signed_packets")) =
                store_metrics["signed_packets"].store_packets_inserted
                  - store_metrics["signed_packets"].store_packets_removed)
    /\ [][\A i \in 1 .. MaxCalls :
            /\ Returns(i, "upsert", TRUE) =>
                  \/ Increments({"store_packets_inserted"})
                  \/ Increments({"store_packets_updated"})
            /\ Returns(i, "upsert", FALSE) => Increments({})
            /\ Returns(i, "remove", TRUE) =>
                  Increments({"store_packets_removed"})
            /\ Returns(i, "remove", FALSE) => Increments({})]_vars

\* C35 as stated: for a given key, as long as remove is not called for it,
\* a get never returns a packet older than one returned by an earlier get
\* for that key, in both stores, MokaStore with its expiring entries
\* included.
C35_AsStated ==
    \A s \in Stores : \A k \in Keys :
        last_get.store = s /\ last_get.key = k =>
            \A returned \in last_get.packet :
                \A earlier \in newest_got[s][k] :
                    ~more_recent_than(earlier, returned)

\* C36: as long as no entry of the moka cache has expired, the same
\* sequence of upsert, get and remove calls, made one after the other on
\* the SignedPacketStore and on the MokaStore, returns the same result on
\* both at every step, leaves both with the same key-to-packet mapping and
\* has incremented the same metrics counters on both.
C36_StoresEquivalent ==
    ~moka_expired =>
        /\ last_result["signed_packets"] = last_result["moka"]
        /\ signed_packet_store = moka_store
        /\ store_metrics["signed_packets"] = store_metrics["moka"]

\* Four calls have been made on both stores with no expiry: a packet was
\* inserted, one was replaced, a remove found an entry, and the last call,
\* a get, returned nothing on both.
C36_Witness ==
    /\ ~moka_expired
    /\ sequential_calls = 4
    /\ store_metrics["moka"].store_packets_inserted = 1
    /\ store_metrics["moka"].store_packets_updated = 1
    /\ store_metrics["moka"].store_packets_removed = 1
    /\ last_result["moka"].op = "get"
    /\ last_result["signed_packets"].packet = {}

\* The port the captive-portal listener will use: the configured
\* captive_portal_port, or the default when none is configured.
CaptivePortalPortOf(t) ==
    unwrap_or(t.captive_portal_port, DEFAULT_CAPTIVE_PORTAL_PORT)

\* C37 as stated: when TLS is configured and the main listening port equals
\* the port the captive-portal listener will use (the configured
\* captive_portal_port, or the default 80), main fails at its port check,
\* before any listener is bound; the relay server and the captive-portal
\* listener are never bound to the same port.
C37_AsStated ==
    /\ \A t \in main_tls_config :
          (startup_pc \notin {"start", "loaded"}
              /\ main_addr = CaptivePortalPortOf(t)) =>
                  /\ startup_pc = "failed"
                  /\ bound = {}
                  /\ serve_stun_task = "none"
    /\ \A r \in bound, c \in bound :
          r.listener = "relay" /\ c.listener = "captive_portal" =>
              r.port # c.port

\* The upgraded connection cannot be handed to accept: it is not of the
\* server's stream type, or it comes with buffered bytes.
Unacceptable(i) ==
    \/ upgraded[i].io # "TokioIo<MaybeTlsStream>"
    \/ upgraded[i].read_buf # <<>>

\* The upgraded connections of the protocol whose handler has run and
\* that could be handed to accept.
Accepted(protocol) ==
    {i \in Upgrades : /\ handshake_pc[i] \notin {"none", "upgraded"}
                      /\ upgraded[i].protocol = protocol
                      /\ ~Unacceptable(i)}

\* C38: when the upgraded connection still holds bytes read before the
\* upgrade, or cannot be downcast to the server's stream type,
\* relay_connection_handler fails before the relay handshake starts: the
\* handler ends failed with the downcast or the buffered-data error, no
\* CreateClient is sent and no slot is registered for it, and the accept
\* counters count only the connections that could be handed to accept.
C38_FailsBeforeHandshake ==
    /\ \A i \in Upgrades :
          (Unacceptable(i) /\ handshake_pc[i] \notin {"none", "upgraded"}) =>
              /\ handshake_pc[i] = "failed"
              /\ handshake_error[i] \in {"downcast", "buffered"}
              /\ ~create_client_sent[i]
              /\ ~client_slot[i]
    /\ accept_metrics.derp_accepts = Cardinality(Accepted("Relay"))
    /\ accept_metrics.websocket_accepts = Cardinality(Accepted("Websocket"))

\* One handler failed on a connection of another type, one on buffered
\* bytes of a connection of the server's type, and no accept was counted.
C38_Witness ==
    /\ \E i \in Upgrades :
          /\ handshake_error[i] = "downcast"
          /\ upgraded[i].io = "other"
    /\ \E i \in Upgrades :
          /\ handshake_error[i] = "buffered"
          /\ upgraded[i].io = "TokioIo<MaybeTlsStream>"
          /\ Len(upgraded[i].read_buf) = 2
    /\ accept_metrics = [derp_accepts |-> 0, websocket_accepts |-> 0]

\* C39: with the LetsEncrypt acceptor, a connection the acceptor takes for
\* a TLS-ALPN-01 validation request is never served as HTTP, never reaches
\* the relay route, and its task has returned Ok; any connection is served
\* as HTTP only after its TLS handshake succeeded; and a failed handshake
\* ends the task with an error, with no HTTP request processed.
C39_TlsBeforeHttp ==
    \A i \in TlsConns :
        /\ tls_accepted[i] = "validation" =>
              /\ tls_acceptor[i] = "LetsEncrypt"
              /\ ~served_http[i]
              /\ ~relay_route[i]
              /\ tls_pc[i] = "returned"
              /\ tls_result[i] = "Ok"
        /\ (served_http[i] \/ relay_route[i] \/ tls_pc[i] = "serving") =>
              tls_handshake[i] = "succeeded"
        /\ tls_handshake[i] = "failed" =>
              /\ tls_pc[i] = "returned"
              /\ tls_result[i] = "Err"
              /\ ~served_http[i]
              /\ ~relay_route[i]

\* One connection was a validation request and its task returned Ok;
\* another, of the same acceptor, failed its handshake in into_stream and
\* its task returned Err.
C39_Witness ==
    /\ \E i \in TlsConns :
          /\ tls_accepted[i] = "validation"
          /\ tls_result[i] = "Ok"
    /\ \E i \in TlsConns :
          /\ tls_accepted[i] = "start_handshake"
          /\ tls_handshake[i] = "failed"
          /\ tls_result[i] = "Err"

====
